---- MODULE Spec2Model ----
(***************************************************************************)
(* Model of baseline-init: the SECURITY-INSIGHTS validation engine         *)
(* (pkg/validator/validator.go: ValidateFile, the version router           *)
(* validateSecurityInsights and the two validators it dispatches to), the  *)
(* file generator (pkg/generator/generator.go) and the compliance checker  *)
(* (pkg/checker/checker.go).                                               *)
(*                                                                         *)
(* Go strings that the validators inspect by content (the schema version,  *)
(* whose prefix is tested, and the expiration date, which is parsed) are   *)
(* sequences of one-character strings.  The other strings are TLA+         *)
(* strings.                                                                *)
(***************************************************************************)
EXTENDS Integers, Sequences, FiniteSets, TLC

VARIABLES
    data,      \* the document handed to the validator (its parsed YAML tree)
    now,       \* the value time.Now() returns during the call, in seconds
    pc,        \* "ready" before the call, "done" after it
    entry,     \* the function that was called
    calls,     \* the validators the call entered, in order
    result,    \* the *ValidationResult the call returned
    err,       \* the error the call returned ("none" before any call returns)
    first,     \* an earlier validation of the same bytes: its clock and result
    repo,      \* the repository directory: what each path holds
    config,    \* the *Config handed to the generator
    force,     \* Generator.force
    file,      \* the path handed to ValidateFile and whether it can be read
    report,    \* the *ComplianceResult Checker.Check returned
    heap,      \* the ValidationResult objects allocated by concurrent calls
    callers,   \* the concurrent callers of validateSecurityInsights
    args,      \* the command line of the running cobra command
    stdout,    \* what the command has written to standard output, in order
    cmdErr,    \* the error the command's RunE returned
    exitCode   \* the exit code of the process once it has ended

vars == <<data, now, pc, entry, calls, result, err, first, repo, config, force, file, report, heap, callers, args, stdout, cmdErr, exitCode>>

\* The variables the validator's own calls leave alone.
repoVars == <<repo, config, force, file, report>>

concVars == <<heap, callers>>

cliVars == <<args, stdout, cmdErr, exitCode>>

----------------------------------------------------------------------------
(* Characters and decimal digits *)

DigitChars == <<"0", "1", "2", "3", "4", "5", "6", "7", "8", "9">>

IsDigit(c) == \E i \in 1..10 : DigitChars[i] = c

DigitVal(c) == (CHOOSE i \in 1..10 : DigitChars[i] = c) - 1

AllDigits(s) == \A i \in 1..Len(s) : IsDigit(s[i])

\* Position of the first occurrence of character c in s, or 0.
IndexOf(s, c) ==
    IF \E i \in 1..Len(s) : s[i] = c
    THEN CHOOSE i \in 1..Len(s) : s[i] = c /\ \A j \in 1..(i - 1) : s[j] # c
    ELSE 0

\* The value of a string of decimal digits.
RECURSIVE DecValue(_)
DecValue(s) ==
    IF s = <<>> THEN 0
    ELSE 10 * DecValue(SubSeq(s, 1, Len(s) - 1)) + DigitVal(s[Len(s)])

\* The decimal digits of a natural number (strconv.Itoa).
RECURSIVE Itoa(_)
Itoa(n) ==
    IF n < 10 THEN <<DigitChars[n + 1]>>
    ELSE Itoa(n \div 10) \o <<DigitChars[(n % 10) + 1]>>

\* strings.HasPrefix
HasPrefix(s, prefix) ==
    /\ Len(s) >= Len(prefix)
    /\ SubSeq(s, 1, Len(prefix)) = prefix

----------------------------------------------------------------------------
(* YAML scalars as gopkg.in/yaml.v3 resolves them, and fmt's %v            *)
(*                                                                         *)
(* A node is a record [style, text].  style "absent" is a key that is not  *)
(* in the document, "plain" an unquoted scalar, "quoted" a quoted scalar   *)
(* and "map" a mapping where a scalar is expected.  The texts used are     *)
(* unsigned and written without a leading zero in the integer part, the    *)
(* forms for which the resolution below is yaml.v3's.                      *)

Node(style, text) == [style |-> style, text |-> text]

AbsentNode == Node("absent", <<>>)

\* Position of the exponent marker of a number, or 0.
ExpPos(s) == IF IndexOf(s, "e") # 0 THEN IndexOf(s, "e") ELSE IndexOf(s, "E")

MantText(s) == IF ExpPos(s) = 0 THEN s ELSE SubSeq(s, 1, ExpPos(s) - 1)

ExpText(s) == IF ExpPos(s) = 0 THEN <<>> ELSE SubSeq(s, ExpPos(s) + 1, Len(s))

IntText(s) ==
    IF IndexOf(MantText(s), ".") = 0 THEN MantText(s)
    ELSE SubSeq(MantText(s), 1, IndexOf(MantText(s), ".") - 1)

FracText(s) ==
    IF IndexOf(MantText(s), ".") = 0 THEN <<>>
    ELSE SubSeq(MantText(s), IndexOf(MantText(s), ".") + 1, Len(MantText(s)))

ExpDigits(s) ==
    IF ExpText(s) # <<>> /\ ExpText(s)[1] \in {"+", "-"} THEN Tail(ExpText(s))
    ELSE ExpText(s)

ExpValue(s) ==
    IF ExpText(s) = <<>> THEN 0
    ELSE IF ExpText(s)[1] = "-" THEN 0 - DecValue(ExpDigits(s))
    ELSE DecValue(ExpDigits(s))

\* strconv.ParseInt(plain, 0, 64) succeeds: a decimal integer.
IsIntText(s) ==
    /\ s # <<>>
    /\ AllDigits(s)
    /\ (Len(s) = 1 \/ s[1] # "0")

\* yamlStyleFloat: [0-9]+(\.[0-9]*)?([eE][-+]?[0-9]+)? or \.[0-9]+(...)?
IsFloatText(s) ==
    /\ AllDigits(IntText(s))
    /\ AllDigits(FracText(s))
    /\ \/ IntText(s) # <<>>
       \/ FracText(s) # <<>>
    /\ ExpPos(s) # 0 => (ExpDigits(s) # <<>> /\ AllDigits(ExpDigits(s)))

\* The Go type a node decodes to when the target is interface{}.
ResolveKind(node) ==
    CASE node.style = "absent" -> "nil"
      [] node.style = "map"    -> "map"
      [] node.style = "quoted" -> "string"
      [] node.style = "plain" /\ node.text = <<>>       -> "nil"
      [] node.style = "plain" /\ IsIntText(node.text)   -> "int"
      [] node.style = "plain" /\ ~IsIntText(node.text) /\ IsFloatText(node.text)
                               -> "float"
      [] OTHER                 -> "string"

RECURSIVE StripLeadingZeros(_)
StripLeadingZeros(s) ==
    IF s # <<>> /\ s[1] = "0" THEN StripLeadingZeros(Tail(s)) ELSE s

RECURSIVE StripTrailingZeros(_)
StripTrailingZeros(s) ==
    IF s # <<>> /\ s[Len(s)] = "0"
    THEN StripTrailingZeros(SubSeq(s, 1, Len(s) - 1))
    ELSE s

\* The shortest decimal digits of the float64 a number text denotes (for the
\* texts used, of at most 15 significant digits, these are the text's own
\* significant digits), with dp such that the value is 0.digs * 10^dp.
FloatDigits(s) == StripTrailingZeros(StripLeadingZeros(IntText(s) \o FracText(s)))

FloatPoint(s) ==
    IF FloatDigits(s) = <<>> THEN 0
    ELSE Len(IntText(s)) + ExpValue(s)
         - (Len(IntText(s) \o FracText(s))
            - Len(StripLeadingZeros(IntText(s) \o FracText(s))))

\* strconv's %e layout with the shortest precision: d.ddde+XX
FmtE(digs, dp) ==
    LET exp == IF digs = <<>> THEN 0 ELSE dp - 1
        mag == IF exp < 0 THEN 0 - exp ELSE exp
    IN  <<digs[1]>>
        \o (IF Len(digs) > 1 THEN <<".">> \o Tail(digs) ELSE <<>>)
        \o <<"e", IF exp < 0 THEN "-" ELSE "+">>
        \o (IF mag < 10 THEN <<"0">> ELSE <<>>) \o Itoa(mag)

\* strconv's %f layout with prec digits after the point.
FmtF(digs, dp, prec) ==
    (IF dp > 0
     THEN [i \in 1..dp |-> IF i <= Len(digs) THEN digs[i] ELSE "0"]
     ELSE <<"0">>)
    \o (IF prec > 0
        THEN <<".">> \o [i \in 1..prec |->
                 IF dp + i >= 1 /\ dp + i <= Len(digs) THEN digs[dp + i] ELSE "0"]
        ELSE <<>>)

\* strconv.FormatFloat(f, 'g', -1, 64), which is what %v prints for a float64:
\* %e when the exponent is below -4 or at least 6 (the precision strconv
\* assumes for this decision when asked for the shortest form), %f otherwise.
FormatG(digs, dp) ==
    IF digs # <<>> /\ (dp - 1 < 0 - 4 \/ dp - 1 >= 6)
    THEN FmtE(digs, dp)
    ELSE FmtF(digs, dp, IF Len(digs) > dp THEN Len(digs) - dp ELSE 0)

\* fmt.Sprintf("%v", x) of the interface{} value a node decodes to.
SprintV(node) ==
    LET kind == ResolveKind(node)
    IN  CASE kind = "nil"    -> <<"<", "n", "i", "l", ">">>
          [] kind = "map"    -> <<"m", "a", "p", "[", "]">>
          [] kind = "int"    -> Itoa(DecValue(node.text))
          [] kind = "float"  ->
                 FormatG(FloatDigits(node.text), FloatPoint(node.text))
          [] OTHER           -> node.text

----------------------------------------------------------------------------
(* time.Parse(time.RFC3339, s) and the instant it denotes                  *)
(*                                                                         *)
(* Layout 2006-01-02T15:04:05Z07:00: a date, "T", a time of day and a zone *)
(* that is "Z" or a numeric offset.  The texts used carry no fractional    *)
(* seconds.  Instants are whole seconds since 1970-01-01T00:00:00Z.        *)

Num2(s, i) == 10 * DigitVal(s[i]) + DigitVal(s[i + 1])

Num4(s, i) == 100 * Num2(s, i) + Num2(s, i + 2)

IsLeap(y) == (y % 4 = 0 /\ y % 100 # 0) \/ y % 400 = 0

DaysIn(m, y) ==
    CASE m = 2 -> IF IsLeap(y) THEN 29 ELSE 28
      [] m \in {4, 6, 9, 11} -> 30
      [] OTHER -> 31

\* The zone of an RFC3339 text starts at position 20.
ZoneOK(s) ==
    \/ Len(s) = 20 /\ s[20] = "Z"
    \/ /\ Len(s) = 25
       /\ s[20] \in {"+", "-"}
       /\ s[23] = ":"
       /\ \A i \in {21, 22, 24, 25} : IsDigit(s[i])
       /\ Num2(s, 21) <= 23
       /\ Num2(s, 24) <= 59

ParsesRFC3339(s) ==
    /\ Len(s) >= 20
    /\ \A i \in {1, 2, 3, 4, 6, 7, 9, 10, 12, 13, 15, 16, 18, 19} : IsDigit(s[i])
    /\ s[5] = "-" /\ s[8] = "-" /\ s[11] = "T" /\ s[14] = ":" /\ s[17] = ":"
    /\ Num2(s, 6) \in 1..12
    /\ Num2(s, 9) \in 1..DaysIn(Num2(s, 6), Num4(s, 1))
    /\ Num2(s, 12) <= 23
    /\ Num2(s, 15) <= 59
    /\ Num2(s, 18) <= 59
    /\ ZoneOK(s)

\* Leap days in the years 1970 .. y-1.
LeapDaysBefore(y) ==
    ((y - 1) \div 4 - (y - 1) \div 100 + (y - 1) \div 400)
    - (1969 \div 4 - 1969 \div 100 + 1969 \div 400)

RECURSIVE DaysBeforeMonth(_, _)
DaysBeforeMonth(m, y) ==
    IF m = 1 THEN 0 ELSE DaysBeforeMonth(m - 1, y) + DaysIn(m - 1, y)

ZoneOffset(s) ==
    IF s[20] = "Z" THEN 0
    ELSE (IF s[20] = "-" THEN 0 - 1 ELSE 1)
         * (3600 * Num2(s, 21) + 60 * Num2(s, 24))

\* The instant of a text that ParsesRFC3339.
Instant(s) ==
    LET y == Num4(s, 1)
        days == 365 * (y - 1970) + LeapDaysBefore(y)
                + DaysBeforeMonth(Num2(s, 6), y) + (Num2(s, 9) - 1)
    IN  86400 * days + 3600 * Num2(s, 12) + 60 * Num2(s, 15) + Num2(s, 18)
        - ZoneOffset(s)

\* Mutant: a date equal to the current time counts as passed.
AfterOrEqual(t, u) == t >= u

\* t.After(u)
After(t, u) == t > u

----------------------------------------------------------------------------
(* Documents                                                               *)
(*                                                                         *)
(* A document is the YAML tree of the bytes: whether the bytes are         *)
(* well-formed YAML at all, whether `header` is a mapping, and the scalars *)
(* under the keys the three decoding targets read.  header.schema-version  *)
(* is a node, because the router decodes it into interface{}; the other    *)
(* scalars are given by their text, "" for an absent, null or empty one.   *)

Doc(syntax, header, sv, exp, lu, lr, purl, status, bfo, contacts, url, name, admins, rurl, rstatus, acr) ==
    [syntax |-> syntax, header |-> header, schemaVersion |-> sv,
     expirationDate |-> exp, lastUpdated |-> lu, lastReviewed |-> lr,
     projectURL |-> purl, status |-> status, bugFixesOnly |-> bfo,
     securityContacts |-> contacts,
     url |-> url, name |-> name, administrators |-> admins,
     repositoryURL |-> rurl, repositoryStatus |-> rstatus,
     acceptsChangeRequest |-> acr]

\* yaml.v3 decoding a scalar node into a Go string: the scalar's text as
\* written, whatever it resolves to; a mapping is a type error.
StringOK(node) == node.style # "map"

DecodeString(node) == IF node.style \in {"plain", "quoted"} THEN node.text ELSE <<>>

\* yaml.v3 decoding a scalar into a Go bool.
BoolOK(text) == text \in {"", "true", "false"}

\* Mutant: the router's parse does not notice bytes that are not YAML.
UnmarshalHeaderLenient(doc) == doc.header = "map"

\* yaml.Unmarshal(data, &header) of validateSecurityInsights: fails on bytes
\* that are not YAML and on a `header` that is not a mapping.
UnmarshalHeaderOK(doc) == doc.syntax = "ok" /\ doc.header = "map"

\* yaml.Unmarshal(data, &si) with si a SecurityInsightsV1.
UnmarshalV1OK(doc) ==
    /\ doc.syntax = "ok"
    /\ doc.header = "map"
    /\ StringOK(doc.schemaVersion)
    /\ BoolOK(doc.bugFixesOnly)

SecurityInsightsV1(doc) ==
    [SchemaVersion    |-> DecodeString(doc.schemaVersion),
     ExpirationDate   |-> doc.expirationDate,
     LastUpdated      |-> doc.lastUpdated,
     LastReviewed     |-> doc.lastReviewed,
     ProjectURL       |-> doc.projectURL,
     Status           |-> doc.status,
     SecurityContacts |-> doc.securityContacts]

\* yaml.Unmarshal(data, &insights) with insights a sitooling.SecurityInsights.
UnmarshalV2OK(doc) ==
    /\ doc.syntax = "ok"
    /\ doc.header = "map"
    /\ StringOK(doc.schemaVersion)
    /\ BoolOK(doc.acceptsChangeRequest)

SecurityInsightsV2(doc) ==
    [SchemaVersion    |-> DecodeString(doc.schemaVersion),
     LastUpdated      |-> doc.lastUpdated,
     LastReviewed     |-> doc.lastReviewed,
     URL              |-> doc.url,
     Name             |-> doc.name,
     Administrators   |-> doc.administrators,
     RepositoryURL    |-> doc.repositoryURL,
     RepositoryStatus |-> doc.repositoryStatus]

----------------------------------------------------------------------------
(* ValidationResult and the messages the validators append *)

Msg(text, arg) == [text |-> text, arg |-> arg]

NewResult == [IsValid |-> TRUE, Errors |-> <<>>, Warnings |-> <<>>]

\* Mutant: the error is appended but IsValid is left as it was.
AddErrorKeepsValid(r, m) == [r EXCEPT !.Errors = Append(@, m)]

\* result.IsValid = false; result.Errors = append(result.Errors, m)
AddError(r, m) == [r EXCEPT !.IsValid = FALSE, !.Errors = Append(@, m)]

\* Mutant: a warning also clears IsValid.
AddWarningInvalidates(r, m) ==
    [r EXCEPT !.IsValid = FALSE, !.Warnings = Append(@, m)]

\* result.Warnings = append(result.Warnings, m)
AddWarning(r, m) == [r EXCEPT !.Warnings = Append(@, m)]

validStatuses == <<"active", "archived", "concept", "moved", "wip">>

\* Mutant: the loop stops one short of the last valid status.
StatusKnownSkipsLast(status) ==
    \E i \in 1..(Len(validStatuses) - 1) : status = validStatuses[i]

\* The loop over validStatuses that sets isValid.
StatusKnown(status) == \E i \in 1..Len(validStatuses) : status = validStatuses[i]

----------------------------------------------------------------------------
(* validateSecurityInsightsV1 *)

V1CheckSchemaVersion(r, si) ==
    IF si.SchemaVersion = <<>>
    THEN AddError(r, Msg("Missing required field", "header.schema-version"))
    ELSE r

\* Mutant: the check is skipped once an earlier check has failed.
V1CheckProjectURLIfValid(r, si) ==
    IF r.IsValid /\ si.ProjectURL = ""
    THEN AddError(r, Msg("Missing required field", "header.project-url"))
    ELSE r

V1CheckProjectURL(r, si) ==
    IF si.ProjectURL = ""
    THEN AddError(r, Msg("Missing required field", "header.project-url"))
    ELSE r

\* Mutant: an expired file is reported as an error.
V1CheckExpirationDateExpiredIsError(r, si, t) ==
    IF si.ExpirationDate = <<>>
    THEN AddError(r, Msg("Missing required field", "header.expiration-date"))
    ELSE IF ~ParsesRFC3339(si.ExpirationDate)
    THEN AddWarning(r, Msg("Invalid expiration-date format (should be RFC3339)", ""))
    ELSE IF After(t, Instant(si.ExpirationDate))
    THEN AddError(r, Msg("File has expired - please update expiration-date", ""))
    ELSE r

\* t is what time.Now() returns; it is read only when the date parses.
V1CheckExpirationDate(r, si, t) ==
    IF si.ExpirationDate = <<>>
    THEN AddError(r, Msg("Missing required field", "header.expiration-date"))
    ELSE IF ~ParsesRFC3339(si.ExpirationDate)
    THEN AddWarning(r, Msg("Invalid expiration-date format (should be RFC3339)", ""))
    ELSE IF After(t, Instant(si.ExpirationDate))
    THEN AddWarning(r, Msg("File has expired - please update expiration-date", ""))
    ELSE r

\* Mutant: the check is skipped once an earlier check has failed.
CheckLastUpdatedIfValid(r, lastUpdated) ==
    IF r.IsValid /\ lastUpdated = ""
    THEN AddWarning(r, Msg("Missing recommended field", "header.last-updated"))
    ELSE r

CheckLastUpdated(r, lastUpdated) ==
    IF lastUpdated = ""
    THEN AddWarning(r, Msg("Missing recommended field", "header.last-updated"))
    ELSE r

CheckLastReviewed(r, lastReviewed) ==
    IF lastReviewed = ""
    THEN AddWarning(r, Msg("Missing recommended field", "header.last-reviewed"))
    ELSE r

V1CheckStatus(r, si) ==
    IF si.Status = ""
    THEN AddError(r, Msg("Missing required field", "project-lifecycle.status"))
    ELSE IF ~StatusKnown(si.Status)
    THEN AddWarning(r, Msg("Unusual project-lifecycle.status", si.Status))
    ELSE r

\* Mutant: the messages count the contacts from one.
V1CheckContactOneBased(r, contact, i) ==
    LET r1 == IF contact.type = ""
              THEN AddWarning(r, Msg("Security contact missing type", ToString(i + 1)))
              ELSE r
    IN  IF contact.value = ""
        THEN AddWarning(r1, Msg("Security contact missing value", ToString(i + 1)))
        ELSE r1

\* One iteration of the loop over si.SecurityContacts; i is the Go index.
V1CheckContact(r, contact, i) ==
    LET r1 == IF contact.type = ""
              THEN AddWarning(r, Msg("Security contact missing type", ToString(i)))
              ELSE r
    IN  IF contact.value = ""
        THEN AddWarning(r1, Msg("Security contact missing value", ToString(i)))
        ELSE r1

RECURSIVE V1ContactLoop(_, _, _)
V1ContactLoop(r, contacts, i) ==
    IF i >= Len(contacts) THEN r
    ELSE V1ContactLoop(V1CheckContact(r, contacts[i + 1], i), contacts, i + 1)

V1CheckSecurityContacts(r, si) ==
    IF Len(si.SecurityContacts) = 0
    THEN AddWarning(r, Msg("No security-contacts specified", ""))
    ELSE V1ContactLoop(r, si.SecurityContacts, 0)

\* Mutant: the schema-version check runs after the other checks instead of
\* first.
V1ChecksVersionLast(r, si, t) ==
    LET r2 == V1CheckProjectURL(r, si)
        r3 == V1CheckExpirationDate(r2, si, t)
        r4 == CheckLastUpdated(r3, si.LastUpdated)
        r5 == CheckLastReviewed(r4, si.LastReviewed)
        r6 == V1CheckStatus(r5, si)
        r7 == V1CheckSecurityContacts(r6, si)
    IN  V1CheckSchemaVersion(r7, si)

\* Mutant: the status check runs with the other required-field checks,
\* before the recommended-field checks.
V1ChecksRequiredFirst(r, si, t) ==
    LET r1 == V1CheckSchemaVersion(r, si)
        r2 == V1CheckProjectURL(r1, si)
        r3 == V1CheckExpirationDate(r2, si, t)
        r4 == V1CheckStatus(r3, si)
        r5 == CheckLastUpdated(r4, si.LastUpdated)
        r6 == CheckLastReviewed(r5, si.LastReviewed)
    IN  V1CheckSecurityContacts(r6, si)

\* The checks of validateSecurityInsightsV1 after a successful parse, in the
\* order of the code.
V1Checks(r, si, t) ==
    LET r1 == V1CheckSchemaVersion(r, si)
        r2 == V1CheckProjectURL(r1, si)
        r3 == V1CheckExpirationDate(r2, si, t)
        r4 == CheckLastUpdated(r3, si.LastUpdated)
        r5 == CheckLastReviewed(r4, si.LastReviewed)
        r6 == V1CheckStatus(r5, si)
    IN  V1CheckSecurityContacts(r6, si)

validateSecurityInsightsV1(doc, t) ==
    IF ~UnmarshalV1OK(doc)
    THEN AddError(NewResult, Msg("Invalid YAML", "yaml: unmarshal error"))
    ELSE V1Checks(NewResult, SecurityInsightsV1(doc), t)

\* validateSecurityInsightsV1 evaluates time.Now() on this document.
V1ReadsClock(doc) ==
    /\ UnmarshalV1OK(doc)
    /\ doc.expirationDate # <<>>
    /\ ParsesRFC3339(doc.expirationDate)

----------------------------------------------------------------------------
(* validateSecurityInsightsV2 *)

V2VersionOK(insights) == HasPrefix(insights.SchemaVersion, <<"2", ".">>)

V2CheckURL(r, insights) ==
    IF insights.URL = ""
    THEN AddError(r, Msg("Missing required field", "header.url"))
    ELSE r

\* Mutant: project.name is treated as a required field.
V2CheckProjectNameRequired(r, insights) ==
    IF insights.Name = ""
    THEN AddError(r, Msg("Missing required field", "project.name"))
    ELSE r

V2CheckProjectName(r, insights) ==
    IF insights.Name = ""
    THEN AddWarning(r, Msg("Missing recommended field", "project.name"))
    ELSE r

\* One iteration of the loop over insights.Project.Administrators.
V2CheckAdministrator(r, admin, i) ==
    LET r1 == IF admin.name = ""
              THEN AddWarning(r, Msg("Administrator missing name", ToString(i)))
              ELSE r
    IN  IF admin.email = ""
        THEN AddWarning(r1, Msg("Administrator missing email", ToString(i)))
        ELSE r1

RECURSIVE V2AdministratorLoop(_, _, _)
V2AdministratorLoop(r, admins, i) ==
    IF i >= Len(admins) THEN r
    ELSE V2AdministratorLoop(V2CheckAdministrator(r, admins[i + 1], i), admins, i + 1)

V2CheckAdministrators(r, insights) ==
    IF Len(insights.Administrators) = 0
    THEN AddWarning(r, Msg("No project administrators specified", ""))
    ELSE V2AdministratorLoop(r, insights.Administrators, 0)

V2CheckRepositoryURL(r, insights) ==
    IF insights.RepositoryURL = ""
    THEN AddError(r, Msg("Missing required field", "repository.url"))
    ELSE r

V2CheckRepositoryStatus(r, insights) ==
    IF insights.RepositoryStatus = ""
    THEN AddError(r, Msg("Missing required field", "repository.status"))
    ELSE IF ~StatusKnown(insights.RepositoryStatus)
    THEN AddWarning(r, Msg("Unusual repository.status", insights.RepositoryStatus))
    ELSE r

\* The checks of validateSecurityInsightsV2 after the version check, in the
\* order of the code.
V2Checks(r, insights) ==
    LET r1 == CheckLastUpdated(r, insights.LastUpdated)
        r2 == CheckLastReviewed(r1, insights.LastReviewed)
        r3 == V2CheckURL(r2, insights)
        r4 == V2CheckProjectName(r3, insights)
        r5 == V2CheckAdministrators(r4, insights)
        r6 == V2CheckRepositoryURL(r5, insights)
    IN  V2CheckRepositoryStatus(r6, insights)

\* Mutant: the version error does not return; the later checks still run.
validateSecurityInsightsV2NoEarlyExit(doc) ==
    IF ~UnmarshalV2OK(doc)
    THEN AddError(NewResult, Msg("Schema validation failed", "yaml: unmarshal error"))
    ELSE IF ~V2VersionOK(SecurityInsightsV2(doc))
    THEN V2Checks(AddError(NewResult, Msg("Invalid schema version (expected 2.x.x)", "")),
                  SecurityInsightsV2(doc))
    ELSE V2Checks(NewResult, SecurityInsightsV2(doc))

\* Mutant: V2 also judges the document's expiration-date, as V1 does.
validateSecurityInsightsV2ChecksExpiration(doc) ==
    IF ~UnmarshalV2OK(doc)
    THEN AddError(NewResult, Msg("Schema validation failed", "yaml: unmarshal error"))
    ELSE IF ~V2VersionOK(SecurityInsightsV2(doc))
    THEN AddError(NewResult, Msg("Invalid schema version (expected 2.x.x)", ""))
    ELSE V1CheckExpirationDate(V2Checks(NewResult, SecurityInsightsV2(doc)),
                               [ExpirationDate |-> doc.expirationDate], now)

validateSecurityInsightsV2(doc) ==
    IF ~UnmarshalV2OK(doc)
    THEN AddError(NewResult, Msg("Schema validation failed", "yaml: unmarshal error"))
    ELSE IF ~V2VersionOK(SecurityInsightsV2(doc))
    THEN AddError(NewResult, Msg("Invalid schema version (expected 2.x.x)", ""))
    ELSE V2Checks(NewResult, SecurityInsightsV2(doc))

----------------------------------------------------------------------------
(* validateSecurityInsights: the version router *)

\* schemaVersion := fmt.Sprintf("%v", header.Header.SchemaVersion)
RouterSchemaVersion(doc) == SprintV(doc.schemaVersion)

\* Mutant: the router tests the major digit alone, without the dot.
RouteOnMajorDigit(doc) ==
    IF ~UnmarshalHeaderOK(doc) THEN "none"
    ELSE IF HasPrefix(RouterSchemaVersion(doc), <<"2">>) THEN "V2"
    ELSE "V1"

\* The validator the router hands the document to: "none" when its own
\* parse fails, "V2" when the stringified version starts with "2.", else "V1".
Route(doc) ==
    IF ~UnmarshalHeaderOK(doc) THEN "none"
    ELSE IF HasPrefix(RouterSchemaVersion(doc), <<"2", ".">>) THEN "V2"
    ELSE "V1"

validateSecurityInsights(doc, t) ==
    LET route == Route(doc)
    IN  CASE route = "none" ->
                 AddError(NewResult, Msg("Invalid YAML", "yaml: unmarshal error"))
          [] route = "V2" -> validateSecurityInsightsV2(doc)
          [] route = "V1" -> validateSecurityInsightsV1(doc, t)

----------------------------------------------------------------------------
(* The documents and clock readings the model validates *)

MaxContacts == 2
MaxAdministrators == 2

\* header.schema-version as written in the document.
SchemaVersionNodes ==
    { AbsentNode,
      Node("quoted", <<>>),
      Node("quoted", <<"1", ".", "0", ".", "0">>),
      Node("quoted", <<"2", ".", "0", ".", "0">>),
      Node("plain", <<"2", ".", "0", ".", "0">>),
      Node("plain", <<"2", ".", "0">>),
      Node("plain", <<"2", ".", "1">>),
      Node("plain", <<"2", "5", "e", "5">>),
      Node("map", <<>>) }

ExpiredText == <<"2", "0", "2", "0", "-", "0", "1", "-", "0", "1", "T", "0", "0", ":", "0", "0", ":", "0", "0", "Z">>
FutureText == <<"2", "0", "2", "6", "-", "1", "2", "-", "3", "1", "T", "1", "7", ":", "5", "9", ":", "5", "9", "-", "0", "6", ":", "0", "0">>
DateOnlyText == <<"2", "0", "2", "5", "-", "1", "2", "-", "0", "3">>

ExpirationTexts == {<<>>, DateOnlyText, ExpiredText, FutureText}

NowValues == {Instant(ExpiredText), Instant(FutureText), Instant(FutureText) + 1}

ContactEntries == [type : {"", "email"}, value : {"", "security@example.com"}]

AdministratorEntries == [name : {"", "Jane Doe"}, email : {"", "jane@example.com"}]

SeqsUpTo(S, n) == UNION {[1..k -> S] : k \in 0..n}

ProjectURLs == {"", "https://github.com/example/repo"}

Dates == {"", "2025-01-01"}

Statuses == {"", "active", "wip", "experimental"}

MalformedDoc ==
    Doc("bad", "map", AbsentNode, <<>>, "", "", "", "", "", <<>>,
        "", "", <<>>, "", "", "")

\* Well-formed YAML whose `header` is a scalar, e.g. "header: 5".
ScalarHeaderDoc ==
    Doc("ok", "scalar", AbsentNode, <<>>, "", "", "", "", "", <<>>,
        "", "", <<>>, "", "", "")

\* d is a document of the v1 shape.
IsV1Doc(d) ==
    \E sv \in SchemaVersionNodes, exp \in ExpirationTexts,
       lu \in Dates, lr \in Dates, purl \in ProjectURLs, status \in Statuses,
       contacts \in SeqsUpTo(ContactEntries, MaxContacts) :
        d = Doc("ok", "map", sv, exp, lu, lr, purl, status, "", contacts,
                "", "", <<>>, "", "", "")

\* d is a document of the v2 shape.
IsV2Doc(d) ==
    \E sv \in SchemaVersionNodes,
       lu \in Dates, lr \in Dates, url \in ProjectURLs, name \in {"", "repo"},
       admins \in SeqsUpTo(AdministratorEntries, MaxAdministrators),
       rurl \in ProjectURLs, rstatus \in Statuses :
        d = Doc("ok", "map", sv, <<>>, lu, lr, "", "", "", <<>>,
                url, name, admins, rurl, rstatus, "")

\* d is a complete document of either shape with a boolean key that holds a
\* non-boolean scalar, which the full parse of that shape rejects.
IsIllTypedDoc(d) ==
    \E sv \in SchemaVersionNodes, bfo \in {"", "maybe"}, acr \in {"", "maybe"} :
        d = Doc("ok", "map", sv, FutureText, "2025-01-01", "2025-01-01",
                "https://github.com/example/repo", "active", bfo,
                <<[type |-> "email", value |-> "security@example.com"]>>,
                "https://github.com/example/repo", "repo",
                <<[name |-> "Jane Doe", email |-> "jane@example.com"]>>,
                "https://github.com/example/repo", "active", acr)

IsDocument(d) ==
    \/ d = MalformedDoc
    \/ d = ScalarHeaderDoc
    \/ IsV1Doc(d)
    \/ IsV2Doc(d)
    \/ IsIllTypedDoc(d)

----------------------------------------------------------------------------
(* Go strings as TLA+ strings: TLC treats a string as the sequence of its  *)
(* one-character strings, so Len, SubSeq and \o apply to it.               *)

\* strings.Contains(s, sub)
Contains(s, sub) ==
    \E i \in 1..(Len(s) - Len(sub) + 1) : SubSeq(s, i, i + Len(sub) - 1) = sub

UpperLetters == "ABCDEFGHIJKLMNOPQRSTUVWXYZ"
LowerLetters == "abcdefghijklmnopqrstuvwxyz"

LowerOf ==
    [c \in {SubSeq(UpperLetters, i, i) : i \in 1..Len(UpperLetters)} |->
        LET i == CHOOSE j \in 1..Len(UpperLetters) : SubSeq(UpperLetters, j, j) = c
        IN  SubSeq(LowerLetters, i, i)]

ToLowerChar(c) == IF c \in DOMAIN LowerOf THEN LowerOf[c] ELSE c

\* strings.ToLower(s)
RECURSIVE ToLower(_)
ToLower(s) ==
    IF Len(s) = 0 THEN ""
    ELSE ToLowerChar(SubSeq(s, 1, 1)) \o ToLower(SubSeq(s, 2, Len(s)))

\* filepath.Base(path) of a path without trailing separators.
RECURSIVE Base(_)
Base(path) ==
    IF Len(path) = 0 THEN "."
    ELSE IF ~Contains(path, "/") THEN path
    ELSE Base(SubSeq(path, 2, Len(path)))

\* filepath.Join(dir, name) of two clean non-empty elements.
Join(dir, name) == dir \o "/" \o name

----------------------------------------------------------------------------
(* pkg/generator: the content of the generated files *)

\* %t
FormatBool(b) == IF b THEN "true" ELSE "false"

Pad2(n) == IF n < 10 THEN "0" \o ToString(n) ELSE ToString(n)

DaysBeforeYear(y) == 365 * (y - 1970) + LeapDaysBefore(y)

\* time.Now().Format("2006-01-02") when the clock reads t seconds (UTC).
FormatDate(t) ==
    LET d == t \div 86400
        y == CHOOSE yy \in (1970 + d \div 366)..(1970 + d \div 365) :
                 DaysBeforeYear(yy) <= d /\ d < DaysBeforeYear(yy + 1)
        yd == d - DaysBeforeYear(y)
        m == CHOOSE mm \in 1..12 :
                 DaysBeforeMonth(mm, y) <= yd /\ yd < DaysBeforeMonth(mm, y) + DaysIn(mm, y)
    IN  ToString(y) \o "-" \o Pad2(m) \o "-" \o Pad2(yd - DaysBeforeMonth(m, y) + 1)

\* The username of a maintainer written "github:username".
Username(m) ==
    IF Len(m) > 7 /\ SubSeq(m, 1, 7) = "github:" THEN SubSeq(m, 8, Len(m)) ELSE m

\* The list items formatMaintainersV2 renders, by the values it substitutes.
formatMaintainersV2(maintainers, email) ==
    IF Len(maintainers) = 0
    THEN <<[name |-> "Maintainer", email |-> email,
            social |-> "https://github.com/maintainer", primary |-> "true"]>>
    ELSE [i \in 1..Len(maintainers) |->
            [name |-> Username(maintainers[i]), email |-> email,
             social |-> "https://github.com/" \o Username(maintainers[i]),
             primary |-> IF i = 1 THEN "true" ELSE "false"]]

\* Mutant: the template also has a bug-fixes-only key, filled from the
\* config.
SecurityInsightsContentWithBugFixesOnly(c, t) ==
    LET date == FormatDate(t)
        maintainersSection == formatMaintainersV2(c.Maintainers, c.SecurityEmail)
    IN
    [schemaVersion |-> <<"2", ".", "0", ".", "0">>,
     lastUpdated |-> date,
     lastReviewed |-> date,
     url |-> c.ProjectURL,
     name |-> c.ProjectName,
     administrators |-> maintainersSection,
     reportsAccepted |-> FormatBool(c.AcceptsVulnReports),
     repositoryURL |-> c.ProjectURL,
     status |-> c.ProjectStage,
     bugFixesOnly |-> FormatBool(c.BugFixesOnly),
     acceptsChangeRequest |-> FormatBool(c.AcceptsPullRequests),
     acceptsAutomatedChangeRequest |-> FormatBool(c.AcceptsAutomatedPR),
     coreTeam |-> maintainersSection,
     licenseURL |-> c.ProjectURL \o "/blob/main/LICENSE"]

\* The content generateSecurityInsights writes, by the text it substitutes
\* for each verb of its template; t is what time.Now() returns.
SecurityInsightsContent(c, t) ==
    LET date == FormatDate(t)
        maintainersSection == formatMaintainersV2(c.Maintainers, c.SecurityEmail)
    IN
    [schemaVersion |-> <<"2", ".", "0", ".", "0">>,
     lastUpdated |-> date,
     lastReviewed |-> date,
     url |-> c.ProjectURL,
     name |-> c.ProjectName,
     administrators |-> maintainersSection,
     reportsAccepted |-> FormatBool(c.AcceptsVulnReports),
     repositoryURL |-> c.ProjectURL,
     status |-> c.ProjectStage,
     acceptsChangeRequest |-> FormatBool(c.AcceptsPullRequests),
     acceptsAutomatedChangeRequest |-> FormatBool(c.AcceptsAutomatedPR),
     coreTeam |-> maintainersSection,
     licenseURL |-> c.ProjectURL \o "/blob/main/LICENSE"]

\* The content generateSecurityMd writes.
SecurityMdContent(c) == [reportTo |-> c.SecurityEmail]

\* What a YAML reader makes of text substituted after "key: " as a plain
\* scalar: a " #" starts a comment, surrounding blanks are dropped, and
\* nothing (or a comment alone) is null, which decodes to the empty string.
RECURSIVE TrimRight(_)
TrimRight(s) ==
    IF Len(s) > 0 /\ SubSeq(s, Len(s), Len(s)) = " "
    THEN TrimRight(SubSeq(s, 1, Len(s) - 1))
    ELSE s

PlainScalarValue(s) ==
    IF Len(s) > 0 /\ SubSeq(s, 1, 1) = "#" THEN ""
    ELSE IF Contains(s, " #")
    THEN LET i == CHOOSE j \in 1..Len(s) :
                     /\ SubSeq(s, j, j + 1) = " #"
                     /\ \A k \in 1..(j - 1) : SubSeq(s, k, k + 1) # " #"
         IN  TrimRight(SubSeq(s, 1, i - 1))
    ELSE TrimRight(s)

\* A plain scalar cannot hold ": " or end with ":" (the reader takes it for
\* a nested mapping and rejects the document).
PlainScalarOK(s) ==
    LET v == PlainScalarValue(s)
    IN  /\ ~Contains(v, ": ")
        /\ ~(Len(v) > 0 /\ SubSeq(v, Len(v), Len(v)) = ":")

\* The YAML tree of a generated SECURITY-INSIGHTS.yml.
InsightsDocument(content) ==
    Doc(IF /\ PlainScalarOK(content.url) /\ PlainScalarOK(content.name)
           /\ PlainScalarOK(content.status)
           /\ \A i \in 1..Len(content.administrators) :
                 /\ PlainScalarOK(content.administrators[i].name)
                 /\ PlainScalarOK(content.administrators[i].email)
        THEN "ok" ELSE "bad",
        "map", Node("plain", content.schemaVersion), <<>>,
        content.lastUpdated, content.lastReviewed, "", "", "", <<>>,
        PlainScalarValue(content.url), PlainScalarValue(content.name),
        [i \in 1..Len(content.administrators) |->
            [name |-> PlainScalarValue(content.administrators[i].name),
             email |-> PlainScalarValue(content.administrators[i].email)]],
        PlainScalarValue(content.repositoryURL), PlainScalarValue(content.status),
        content.acceptsChangeRequest)

----------------------------------------------------------------------------
(* The repository directory *)

Absent == [kind |-> "absent"]

Directory == [kind |-> "dir"]

\* A file that was in the repository before the tool ran.
ExistingFile == [kind |-> "file", by |-> "user"]

GeneratedFile(content) == [kind |-> "file", by |-> "generator", content |-> content]

\* os.Stat(path) returns no error.
StatOK(r, path) == r[path].kind # "absent"

\* The repository the tools are pointed at.
RepoPath == "/home/dev/repo"

\* The candidate locations of each compliance file, relative to the
\* repository, in the order the checker tries them.
SecurityInsightsPaths ==
    <<"SECURITY-INSIGHTS.yml", ".github/SECURITY-INSIGHTS.yml",
      "SECURITY-INSIGHTS.yaml", ".github/SECURITY-INSIGHTS.yaml">>

SecurityPolicyPaths == <<"SECURITY.md", ".github/SECURITY.md", "docs/SECURITY.md">>

LicensePaths == <<"LICENSE", "LICENSE.md", "LICENSE.txt", "COPYING">>

CodeOfConductPaths ==
    <<"CODE_OF_CONDUCT.md", ".github/CODE_OF_CONDUCT.md", "docs/CODE_OF_CONDUCT.md">>

ContributingPaths ==
    <<"CONTRIBUTING.md", ".github/CONTRIBUTING.md", "docs/CONTRIBUTING.md">>

Range(seq) == {seq[i] : i \in 1..Len(seq)}

CandidatePaths ==
    Range(SecurityInsightsPaths) \cup Range(SecurityPolicyPaths)
    \cup Range(LicensePaths) \cup Range(CodeOfConductPaths)
    \cup Range(ContributingPaths)

RepoPaths == CandidatePaths \cup {".github"}

EmptyRepo == [p \in RepoPaths |-> Absent]

----------------------------------------------------------------------------
(* pkg/generator: GenerateDefaults and GenerateWithConfig *)

MaxMaintainers == 1
MaxDistributionPoints == 1

\* The config GenerateDefaults builds.
DefaultConfig(repoPath) ==
    [ProjectURL |-> "https://github.com/example/repo",
     ProjectName |-> Base(repoPath),
     SecurityEmail |-> "security@example.com",
     AcceptsVulnReports |-> TRUE,
     AcceptsPullRequests |-> TRUE,
     AcceptsAutomatedPR |-> TRUE,
     ProjectStage |-> "active",
     BugFixesOnly |-> FALSE,
     Maintainers |-> <<"github:maintainer">>,
     DistributionPoints |-> <<>>]

\* The I/O call of GenerateWithConfig that fails, if any.
IOFaults ==
    {"none", "MkdirAll", "WriteFile SECURITY-INSIGHTS.yml", "WriteFile SECURITY.md"}

\* Mutant: an existing file is overwritten whatever force says.
WritesFileAlways(r, path, f) == TRUE

\* The else branch of `if _, err := os.Stat(path); err == nil && !g.force`.
WritesFile(r, path, f) == ~(StatOK(r, path) /\ ~f)

\* GenerateWithConfig on repository r with config c and force f, at clock
\* reading t: the repository it leaves and the error it returns.
GenerateWithConfig(r, c, f, fault, t) ==
    IF fault = "MkdirAll"
    THEN [repo |-> r, err |-> "failed to create .github directory"]
    ELSE
    LET r1 == [r EXCEPT ![".github"] = Directory]
        r2 == IF WritesFile(r1, "SECURITY-INSIGHTS.yml", f)
              THEN [r1 EXCEPT !["SECURITY-INSIGHTS.yml"] =
                                  GeneratedFile(SecurityInsightsContent(c, t))]
              ELSE r1
        r3 == IF WritesFile(r2, "SECURITY.md", f)
              THEN [r2 EXCEPT !["SECURITY.md"] = GeneratedFile(SecurityMdContent(c))]
              ELSE r2
    IN  IF WritesFile(r1, "SECURITY-INSIGHTS.yml", f)
           /\ fault = "WriteFile SECURITY-INSIGHTS.yml"
        THEN [repo |-> r1, err |-> "failed to generate SECURITY-INSIGHTS.yml"]
        ELSE IF WritesFile(r2, "SECURITY.md", f) /\ fault = "WriteFile SECURITY.md"
        THEN [repo |-> r2, err |-> "failed to generate SECURITY.md"]
        ELSE [repo |-> r3, err |-> "nil"]

\* The clock readings at which the generator runs: the last second of a day
\* and the first of the next.
GeneratorNowValues == {Instant(FutureText), Instant(FutureText) + 1}

\* The call reads the clock: it gets as far as generateSecurityInsights.
GeneratorReadsClock(r, f, fault) ==
    /\ fault # "MkdirAll"
    /\ WritesFile(r, "SECURITY-INSIGHTS.yml", f)

\* The configurations handed to the generator.
ProjectNames == {"", "repo", "repo #1"}

MaintainerTexts == {"github:alice", "bob"}

DistributionPointTexts == {"https://pkg.go.dev/example"}

IsConfig(c) ==
    \E url \in ProjectURLs, name \in ProjectNames, stage \in Statuses,
       vuln \in BOOLEAN, pr \in BOOLEAN, auto \in BOOLEAN, bfo \in BOOLEAN,
       maintainers \in SeqsUpTo(MaintainerTexts, MaxMaintainers),
       points \in SeqsUpTo(DistributionPointTexts, MaxDistributionPoints) :
        c = [ProjectURL |-> url, ProjectName |-> name,
             SecurityEmail |-> "security@example.com",
             AcceptsVulnReports |-> vuln, AcceptsPullRequests |-> pr,
             AcceptsAutomatedPR |-> auto, ProjectStage |-> stage,
             BugFixesOnly |-> bfo, Maintainers |-> maintainers,
             DistributionPoints |-> points]

----------------------------------------------------------------------------
(* ValidateFile *)

\* The nil *ValidationResult.
NilResult == [nil |-> TRUE]

\* Mutant: bytes that are not YAML make ValidateFile itself fail.
ValidateFileFailsOnBadYAML(path, readable, doc, t) ==
    IF ~readable
    THEN [result |-> NilResult, err |-> "failed to read file"]
    ELSE IF Contains(ToLower(path), "security-insights")
    THEN IF doc.syntax = "bad"
         THEN [result |-> NilResult, err |-> "invalid YAML"]
         ELSE [result |-> validateSecurityInsights(doc, t), err |-> "nil"]
    ELSE [result |-> NilResult, err |-> "unknown file type"]

\* Mutant: the file type is decided with the case of the path as given.
ValidateFileCaseSensitive(path, readable, doc, t) ==
    IF ~readable
    THEN [result |-> NilResult, err |-> "failed to read file"]
    ELSE IF Contains(path, "security-insights")
    THEN [result |-> validateSecurityInsights(doc, t), err |-> "nil"]
    ELSE [result |-> NilResult, err |-> "unknown file type"]

\* ValidateFile(path) when the file can or cannot be read and holds doc.
ValidateFile(path, readable, doc, t) ==
    IF ~readable
    THEN [result |-> NilResult, err |-> "failed to read file"]
    ELSE IF Contains(ToLower(path), "security-insights")
    THEN [result |-> validateSecurityInsights(doc, t), err |-> "nil"]
    ELSE [result |-> NilResult, err |-> "unknown file type"]

\* The variables of the other subsystems while the validator is called
\* directly on bytes.
NoRepo ==
    /\ repo = EmptyRepo
    /\ config = DefaultConfig(RepoPath)
    /\ force = FALSE
    /\ file = [path |-> "", readable |-> FALSE]
    /\ report = [checked |-> FALSE]

NoCallers ==
    /\ heap = <<>>
    /\ callers = <<>>

\* No command of the CLI is running.
NoCommand ==
    /\ args = [command |-> "none"]
    /\ stdout = <<>>
    /\ cmdErr = "none"
    /\ exitCode = "running"

----------------------------------------------------------------------------
(* The state machine: one call of the validator on one document *)

Init ==
    /\ IsDocument(data)
    /\ now = 0
    /\ pc = "ready"
    /\ entry = "none"
    /\ calls = <<>>
    /\ result = NewResult
    /\ err = "none"
    /\ first = [called |-> FALSE, now |-> 0, result |-> NewResult]
    /\ NoRepo
    /\ NoCallers
    /\ NoCommand

\* A call of validateSecurityInsights(data).
CallValidateSecurityInsights ==
    /\ pc = "ready"
    /\ \E t \in (IF Route(data) = "V1" /\ V1ReadsClock(data) THEN NowValues ELSE {now}) :
        /\ now' = t
        /\ result' = validateSecurityInsights(data, t)
    /\ calls' = IF Route(data) = "none" THEN <<>> ELSE <<Route(data)>>
    /\ entry' = "validateSecurityInsights"
    /\ pc' = "done"
    /\ err' = "nil"
    /\ UNCHANGED <<data, first, repoVars, concVars, cliVars>>

\* A call of validateSecurityInsightsV1(data) from inside the package.
CallValidateSecurityInsightsV1 ==
    /\ pc = "ready"
    /\ \E t \in (IF V1ReadsClock(data) THEN NowValues ELSE {now}) :
        /\ now' = t
        /\ result' = validateSecurityInsightsV1(data, t)
    /\ calls' = <<"V1">>
    /\ entry' = "validateSecurityInsightsV1"
    /\ pc' = "done"
    /\ err' = "nil"
    /\ UNCHANGED <<data, first, repoVars, concVars, cliVars>>

\* A call of validateSecurityInsightsV2(data) from inside the package.
CallValidateSecurityInsightsV2 ==
    /\ pc = "ready"
    /\ result' = validateSecurityInsightsV2(data)
    /\ calls' = <<"V2">>
    /\ entry' = "validateSecurityInsightsV2"
    /\ pc' = "done"
    /\ err' = "nil"
    /\ UNCHANGED <<data, now, first, repoVars, concVars, cliVars>>

Next ==
    \/ CallValidateSecurityInsights
    \/ CallValidateSecurityInsightsV1
    \/ CallValidateSecurityInsightsV2

Spec == Init /\ [][Next]_vars

\* A second call of validateSecurityInsights on the same bytes, at a clock
\* reading of its own.
Revalidate ==
    /\ pc = "done"
    /\ entry = "validateSecurityInsights"
    /\ ~first.called
    /\ first' = [called |-> TRUE, now |-> now, result |-> result]
    /\ \E t \in (IF Route(data) = "V1" /\ V1ReadsClock(data) THEN NowValues ELSE {now}) :
        /\ now' = t
        /\ result' = validateSecurityInsights(data, t)
    /\ err' = "nil"
    /\ UNCHANGED <<data, pc, entry, calls, repoVars, concVars, cliVars>>

NextTwice ==
    \/ CallValidateSecurityInsights
    \/ Revalidate

SpecTwice == Init /\ [][NextTwice]_vars

----------------------------------------------------------------------------
(* The generator followed by the validator: `setup`, then `validate` on the *)
(* generated SECURITY-INSIGHTS.yml                                          *)

InitGenerator ==
    /\ IsConfig(config)
    /\ force \in BOOLEAN
    /\ \E si \in {Absent, ExistingFile}, md \in {Absent, ExistingFile} :
          repo = [EmptyRepo EXCEPT !["SECURITY-INSIGHTS.yml"] = si,
                                   !["SECURITY.md"] = md]
    /\ data = MalformedDoc
    /\ now = 0
    /\ pc = "ready"
    /\ entry = "none"
    /\ calls = <<>>
    /\ result = NewResult
    /\ err = "none"
    /\ first = [called |-> FALSE, now |-> 0, result |-> NewResult]
    /\ file = [path |-> "", readable |-> FALSE]
    /\ report = [checked |-> FALSE]
    /\ NoCallers
    /\ NoCommand

\* g.GenerateWithConfig(config)
CallGenerateWithConfig ==
    /\ pc = "ready"
    /\ \E fault \in IOFaults :
       \E t \in (IF GeneratorReadsClock(repo, force, fault) THEN GeneratorNowValues ELSE {now}) :
       \E out \in {GenerateWithConfig(repo, config, force, fault, t)} :
        /\ now' = t
        /\ repo' = out.repo
        /\ err' = out.err
    /\ entry' = "GenerateWithConfig"
    /\ pc' = "generated"
    /\ UNCHANGED <<data, calls, result, first, config, force, file, report, concVars, cliVars>>

\* g.GenerateDefaults(): GenerateWithConfig on the default config.
CallGenerateDefaults ==
    /\ pc = "ready"
    /\ config' = DefaultConfig(RepoPath)
    /\ \E fault \in IOFaults :
       \E t \in (IF GeneratorReadsClock(repo, force, fault) THEN GeneratorNowValues ELSE {now}) :
       \E out \in {GenerateWithConfig(repo, config', force, fault, t)} :
        /\ now' = t
        /\ repo' = out.repo
        /\ err' = out.err
    /\ entry' = "GenerateDefaults"
    /\ pc' = "generated"
    /\ UNCHANGED <<data, calls, result, first, force, file, report, concVars, cliVars>>

\* v.ValidateFile on the SECURITY-INSIGHTS.yml the generator wrote.
ValidateGeneratedFile ==
    /\ pc = "generated"
    /\ repo["SECURITY-INSIGHTS.yml"].kind = "file"
    /\ repo["SECURITY-INSIGHTS.yml"].by = "generator"
    /\ file' = [path |-> Join(RepoPath, "SECURITY-INSIGHTS.yml"), readable |-> TRUE]
    /\ data' = InsightsDocument(repo["SECURITY-INSIGHTS.yml"].content)
    /\ \E t \in (IF Route(data') = "V1" /\ V1ReadsClock(data') THEN NowValues ELSE {now}) :
       \E out \in {ValidateFile(file'.path, TRUE, data', t)} :
        /\ now' = t
        /\ result' = out.result
        /\ err' = out.err
    /\ calls' = IF Route(data') = "none" THEN <<>> ELSE <<Route(data')>>
    /\ entry' = "ValidateFile"
    /\ pc' = "validated"
    /\ UNCHANGED <<first, repo, config, force, report, concVars, cliVars>>

NextGenerator ==
    \/ CallGenerateWithConfig
    \/ CallGenerateDefaults
    \/ ValidateGeneratedFile

SpecGenerator == InitGenerator /\ [][NextGenerator]_vars

----------------------------------------------------------------------------
(* `validate <file>`: ValidateFile on a path whose bytes are the document *)

\* The paths handed to ValidateFile and whether os.ReadFile can read them.
ValidateFileInputs ==
    { [path |-> "/home/dev/repo/SECURITY-INSIGHTS.yml", readable |-> TRUE],
      [path |-> "/home/dev/repo/SECURITY-INSIGHTS.yml", readable |-> FALSE],
      [path |-> "/home/dev/repo/SECURITY.md", readable |-> TRUE],
      [path |-> "/home/dev/security-insights-spec/README.md", readable |-> TRUE] }

\* ValidateFile reaches validateSecurityInsights.
ValidatesContent(f) ==
    f.readable /\ Contains(ToLower(f.path), "security-insights")

\* v.ValidateFile(file.path)
CallValidateFile ==
    /\ pc = "ready"
    /\ \E f \in ValidateFileInputs :
       \E validates \in {ValidatesContent(f)} :
       \E t \in (IF validates /\ Route(data) = "V1" /\ V1ReadsClock(data)
                 THEN NowValues ELSE {now}) :
       \E out \in {ValidateFile(f.path, f.readable, data, t)} :
        /\ file' = f
        /\ now' = t
        /\ result' = out.result
        /\ err' = out.err
        /\ calls' = IF validates /\ Route(data) # "none"
                    THEN <<Route(data)>> ELSE <<>>
    /\ entry' = "ValidateFile"
    /\ pc' = "done"
    /\ UNCHANGED <<data, first, repo, config, force, report, concVars, cliVars>>

NextValidateFile ==
    \/ CallValidateSecurityInsights
    \/ CallValidateFile

\* The files validated are the documents without list entries (the lists are
\* the validators' business, not ValidateFile's).
InitValidateFile ==
    /\ Init
    /\ data.securityContacts = <<>>
    /\ data.administrators = <<>>

SpecValidateFile == InitValidateFile /\ [][NextValidateFile]_vars

----------------------------------------------------------------------------
(* The `validate <file>` command: runValidate under rootCmd.Execute *)

\* One line written with fmt.Printf / fmt.Println.
Line(kind, text) == [kind |-> kind, text |-> text]

\* The lines runValidate prints for each entry of a message list.
RECURSIVE PrintEach(_, _)
PrintEach(kind, msgs) ==
    IF msgs = <<>> THEN <<>>
    ELSE <<Line(kind, Head(msgs))>> \o PrintEach(kind, Tail(msgs))

\* Execute: a RunE error is printed to stderr and the process exits 1;
\* otherwise the process ends with 0.
Execute(runErr) == IF runErr # "nil" THEN 1 ELSE 0

\* runValidate(cmd, args) with args[0] = path: what it prints, the error it
\* returns and the exit code of the process.
runValidate(path, exists, readable, doc, t) ==
    IF ~exists
    THEN [result |-> NilResult, stdout |-> <<>>,
          err |-> "file does not exist", exit |-> Execute("file does not exist")]
    ELSE LET out == ValidateFile(path, readable, doc, t) IN
         IF out.err # "nil"
         THEN [result |-> NilResult, stdout |-> <<>>,
               err |-> "validation failed", exit |-> Execute("validation failed")]
         ELSE IF out.result.IsValid
         THEN [result |-> out.result, stdout |-> <<Line("valid", path)>>,
               err |-> "nil", exit |-> Execute("nil")]
         ELSE [result |-> out.result,
               stdout |-> <<Line("invalid", path)>>
                          \o PrintEach("error", out.result.Errors)
                          \o (IF Len(out.result.Warnings) > 0
                              THEN <<Line("header", "Warnings:")>>
                                   \o PrintEach("warning", out.result.Warnings)
                              ELSE <<>>),
               err |-> "nil", exit |-> 1]

\* The files named on the command line: whether os.Stat finds them and
\* whether os.ReadFile can read them.
ValidateCommandInputs ==
    { [path |-> f.path, exists |-> TRUE, readable |-> f.readable] : f \in ValidateFileInputs }
    \cup { [path |-> "/home/dev/repo/SECURITY-INSIGHTS.yml", exists |-> FALSE, readable |-> FALSE] }

\* `baseline-init validate <file>` from start to process exit.
RunValidate ==
    /\ pc = "ready"
    /\ \E f \in ValidateCommandInputs :
       \E validates \in {f.exists /\ ValidatesContent(f)} :
       \E t \in (IF validates /\ Route(data) = "V1" /\ V1ReadsClock(data)
                 THEN NowValues ELSE {now}) :
       \E out \in {runValidate(f.path, f.exists, f.readable, data, t)} :
        /\ args' = [command |-> "validate", file |-> f.path, exists |-> f.exists]
        /\ file' = [path |-> f.path, readable |-> f.readable]
        /\ now' = t
        /\ result' = out.result
        /\ stdout' = out.stdout
        /\ cmdErr' = out.err
        /\ err' = out.err
        /\ exitCode' = out.exit
        /\ calls' = IF validates /\ Route(data) # "none"
                    THEN <<Route(data)>> ELSE <<>>
    /\ entry' = "runValidate"
    /\ pc' = "exited"
    /\ UNCHANGED <<data, first, repo, config, force, report, concVars>>

NextValidateCommand ==
    \/ RunValidate

SpecValidateCommand == InitValidateFile /\ [][NextValidateCommand]_vars

----------------------------------------------------------------------------
(* Concurrent callers of validateSecurityInsights on one Validator.  The    *)
(* Validator has no fields, so the memory the calls touch is the            *)
(* ValidationResult objects they allocate: `heap` holds them by address.    *)

Callers == {1, 2}

\* Mutant: the result is one object of the Validator that every call reuses.
AllocateShared(h) == 1

\* result := &ValidationResult{...}: the address of a fresh object.
Allocate(h) == Len(h) + 1

\* The heap once the object at address a has been initialised to v.
Store(h, a, v) == IF a > Len(h) THEN Append(h, v) ELSE [h EXCEPT ![a] = v]

\* The object obj after the assignments and appends that produce r from a
\* new result.
Appended(obj, r) ==
    [IsValid |-> obj.IsValid /\ r.IsValid,
     Errors |-> obj.Errors \o r.Errors,
     Warnings |-> obj.Warnings \o r.Warnings]

\* The documents the concurrent callers validate.
ConcurrentDocs ==
    {MalformedDoc} \cup
    { Doc("ok", "map", sv, exp, "", "", "https://github.com/example/repo",
          status, "", <<>>, "https://github.com/example/repo", "repo", <<>>,
          "https://github.com/example/repo", status, "") :
        sv \in {Node("quoted", <<"1", ".", "0", ".", "0">>),
                Node("plain", <<"2", ".", "0", ".", "0">>)},
        exp \in {<<>>, ExpiredText},
        status \in {"active", "experimental"} }

InitConcurrent ==
    /\ heap = <<>>
    /\ callers \in [Callers -> [doc : ConcurrentDocs, pc : {"ready"}, obj : {0}, now : {0}]]
    /\ data = MalformedDoc
    /\ now = 0
    /\ pc = "ready"
    /\ entry = "none"
    /\ calls = <<>>
    /\ result = NewResult
    /\ err = "none"
    /\ first = [called |-> FALSE, now |-> 0, result |-> NewResult]
    /\ NoRepo
    /\ NoCommand

\* Caller p enters validateSecurityInsights and allocates its result.
CallerBegins(p) ==
    /\ callers[p].pc = "ready"
    /\ heap' = Store(heap, Allocate(heap), NewResult)
    /\ callers' = [callers EXCEPT ![p].pc = "routing", ![p].obj = Allocate(heap)]
    /\ UNCHANGED <<data, now, pc, entry, calls, result, err, first, repoVars, cliVars>>

\* Caller p parses the header: on failure it records the error in its result
\* and returns it; otherwise it enters a validator, which allocates the
\* result it will return.
CallerRoutes(p) ==
    /\ callers[p].pc = "routing"
    /\ IF Route(callers[p].doc) = "none"
       THEN /\ heap' = [heap EXCEPT ![callers[p].obj] =
                            Appended(@, validateSecurityInsights(callers[p].doc, 0))]
            /\ callers' = [callers EXCEPT ![p].pc = "returned"]
       ELSE /\ heap' = Store(heap, Allocate(heap), NewResult)
            /\ callers' = [callers EXCEPT ![p].pc = "validating",
                                          ![p].obj = Allocate(heap)]
    /\ UNCHANGED <<data, now, pc, entry, calls, result, err, first, repoVars, cliVars>>

\* Caller p runs the validator's checks on its result and returns it.
CallerValidates(p) ==
    /\ callers[p].pc = "validating"
    /\ \E t \in (IF Route(callers[p].doc) = "V1" /\ V1ReadsClock(callers[p].doc)
                 THEN NowValues ELSE {0}) :
        /\ heap' = [heap EXCEPT ![callers[p].obj] =
                        Appended(@, validateSecurityInsights(callers[p].doc, t))]
        /\ callers' = [callers EXCEPT ![p].pc = "returned", ![p].now = t]
    /\ UNCHANGED <<data, now, pc, entry, calls, result, err, first, repoVars, cliVars>>

NextConcurrent ==
    \E p \in Callers :
        \/ CallerBegins(p)
        \/ CallerRoutes(p)
        \/ CallerValidates(p)

SpecConcurrent == InitConcurrent /\ [][NextConcurrent]_vars

----------------------------------------------------------------------------
(* pkg/checker: Checker.Check on a repository *)

\* The body shared by checkSecurityInsights, checkSecurityPolicy,
\* checkLicense, checkCodeOfConduct and checkContributing, as the mutant
\* that reports the last existing candidate instead of the first.
checkFileLastMatch(r, name, possiblePaths) ==
    IF \E i \in 1..Len(possiblePaths) : StatOK(r, possiblePaths[i])
    THEN LET i == CHOOSE j \in 1..Len(possiblePaths) :
                     /\ StatOK(r, possiblePaths[j])
                     /\ \A k \in (j + 1)..Len(possiblePaths) : ~StatOK(r, possiblePaths[k])
         IN  [Name |-> name, Path |-> Join(RepoPath, possiblePaths[i]),
              Exists |-> TRUE, Valid |-> TRUE, Errors |-> <<>>, Warnings |-> <<>>]
    ELSE [Name |-> name, Path |-> "", Exists |-> FALSE, Valid |-> FALSE,
          Errors |-> <<>>, Warnings |-> <<>>]

\* Mutant: the helper carries out the validation its TODO announces: a
\* generated SECURITY-INSIGHTS.yml is Valid when the validator accepts it.
checkFileValidating(r, name, possiblePaths) ==
    IF \E i \in 1..Len(possiblePaths) : StatOK(r, possiblePaths[i])
    THEN LET i == CHOOSE j \in 1..Len(possiblePaths) :
                     /\ StatOK(r, possiblePaths[j])
                     /\ \A k \in 1..(j - 1) : ~StatOK(r, possiblePaths[k])
             f == r[possiblePaths[i]]
         IN  [Name |-> name, Path |-> Join(RepoPath, possiblePaths[i]),
              Exists |-> TRUE,
              Valid |-> IF name = "SECURITY-INSIGHTS.yml" /\ f.by = "generator"
                        THEN validateSecurityInsights(InsightsDocument(f.content), now).IsValid
                        ELSE TRUE,
              Errors |-> <<>>, Warnings |-> <<>>]
    ELSE [Name |-> name, Path |-> "", Exists |-> FALSE, Valid |-> FALSE,
          Errors |-> <<>>, Warnings |-> <<>>]

\* The body shared by checkSecurityInsights, checkSecurityPolicy,
\* checkLicense, checkCodeOfConduct and checkContributing: the loop over
\* possiblePaths returns at the first path os.Stat finds.
checkFile(r, name, possiblePaths) ==
    IF \E i \in 1..Len(possiblePaths) : StatOK(r, possiblePaths[i])
    THEN LET i == CHOOSE j \in 1..Len(possiblePaths) :
                     /\ StatOK(r, possiblePaths[j])
                     /\ \A k \in 1..(j - 1) : ~StatOK(r, possiblePaths[k])
         IN  [Name |-> name, Path |-> Join(RepoPath, possiblePaths[i]),
              Exists |-> TRUE, Valid |-> TRUE, Errors |-> <<>>, Warnings |-> <<>>]
    ELSE [Name |-> name, Path |-> "", Exists |-> FALSE, Valid |-> FALSE,
          Errors |-> <<>>, Warnings |-> <<>>]

checkSecurityInsights(r) == checkFile(r, "SECURITY-INSIGHTS.yml", SecurityInsightsPaths)

checkSecurityPolicy(r) == checkFile(r, "SECURITY.md", SecurityPolicyPaths)

checkLicense(r) == checkFile(r, "LICENSE", LicensePaths)

checkCodeOfConduct(r) == checkFile(r, "CODE_OF_CONDUCT.md", CodeOfConductPaths)

checkContributing(r) == checkFile(r, "CONTRIBUTING.md", ContributingPaths)

\* What Check appends to MissingFiles and to Recommendations for a file.
MissingFile(f) == IF f.Exists THEN <<>> ELSE <<f.Name>>

\* Mutant: every recommendation is given the priority high.
RecommendHigh(f, priority, category, action) ==
    IF f.Exists THEN <<>>
    ELSE <<[Priority |-> "high", Category |-> category,
            Description |-> f.Name \o " file is missing", Action |-> action]>>

Recommend(f, priority, category, action) ==
    IF f.Exists THEN <<>>
    ELSE <<[Priority |-> priority, Category |-> category,
            Description |-> f.Name \o " file is missing", Action |-> action]>>

\* Mutant: a missing CODE_OF_CONDUCT.md also counts as a missing file.
CheckCountsCodeOfConduct(r) ==
    LET si == checkSecurityInsights(r)
        md == checkSecurityPolicy(r)
        lic == checkLicense(r)
        coc == checkCodeOfConduct(r)
        con == checkContributing(r)
        missing == MissingFile(si) \o MissingFile(md) \o MissingFile(lic)
                   \o MissingFile(coc)
    IN  [Path |-> RepoPath,
         IsCompliant |-> Len(missing) = 0,
         Files |-> <<si, md, lic, coc, con>>,
         MissingFiles |-> missing,
         Recommendations |-> <<>>]

\* Checker.Check on repository r.
Check(r) ==
    LET si == checkSecurityInsights(r)
        md == checkSecurityPolicy(r)
        lic == checkLicense(r)
        coc == checkCodeOfConduct(r)
        con == checkContributing(r)
        missing == MissingFile(si) \o MissingFile(md) \o MissingFile(lic)
    IN  [Path |-> RepoPath,
         IsCompliant |-> Len(missing) = 0,
         Files |-> <<si, md, lic, coc, con>>,
         MissingFiles |-> missing,
         Recommendations |->
             Recommend(si, "high", "Security Metadata",
                       "Run 'baseline-init setup --auto' to generate this file")
             \o Recommend(md, "medium", "Security Policy",
                          "Create a SECURITY.md file documenting your security policy")
             \o Recommend(lic, "high", "Legal",
                          "Add an appropriate open source license to your repository")
             \o Recommend(coc, "medium", "Community",
                          "Consider adding a code of conduct for contributors")
             \o Recommend(con, "low", "Community",
                          "Consider adding contribution guidelines")]

\* A repository holding any of the candidate paths; .github is there when
\* something is in it.
RepositoryWith(paths) ==
    /\ \E present \in SUBSET paths :
          repo = [p \in RepoPaths |->
                     IF p \in present THEN ExistingFile
                     ELSE IF p = ".github" /\ \E q \in present : Len(q) > 8 /\ SubSeq(q, 1, 8) = ".github/"
                     THEN Directory
                     ELSE Absent]
    /\ config = DefaultConfig(RepoPath)
    /\ force = FALSE
    /\ file = [path |-> "", readable |-> FALSE]
    /\ report = [checked |-> FALSE]
    /\ data = MalformedDoc
    /\ now = 0
    /\ pc = "ready"
    /\ entry = "none"
    /\ calls = <<>>
    /\ result = NewResult
    /\ err = "none"
    /\ first = [called |-> FALSE, now |-> 0, result |-> NewResult]
    /\ NoCallers
    /\ NoCommand

InitChecker == RepositoryWith(CandidatePaths)

\* c.Check()
CallCheck ==
    /\ pc = "ready"
    /\ report' = Check(repo)
    /\ err' = "nil"
    /\ entry' = "Check"
    /\ pc' = "checked"
    /\ UNCHANGED <<data, now, calls, result, first, repo, config, force, file, concVars, cliVars>>

NextChecker == CallCheck

SpecChecker == InitChecker /\ [][NextChecker]_vars

\* c.Check() on the repository the generator has written to, after the
\* validator has judged the generated SECURITY-INSIGHTS.yml.
CheckGeneratedRepository ==
    /\ pc \in {"generated", "validated"}
    /\ report' = Check(repo)
    /\ entry' = "Check"
    /\ pc' = "checked"
    /\ UNCHANGED <<data, now, calls, result, err, first, repo, config, force, file, concVars, cliVars>>

NextCheckGenerated ==
    \/ CallGenerateWithConfig
    \/ ValidateGeneratedFile
    \/ CheckGeneratedRepository

\* The configurations without maintainers and distribution points (neither
\* reaches the five files the checker looks for).
InitCheckGenerated ==
    /\ InitGenerator
    /\ config.Maintainers = <<>>
    /\ config.DistributionPoints = <<>>

SpecCheckGenerated == InitCheckGenerated /\ [][NextCheckGenerated]_vars

----------------------------------------------------------------------------
(* pkg/report and the `check` command: runCheck under rootCmd.Execute *)

UpperOf ==
    [c \in {SubSeq(LowerLetters, i, i) : i \in 1..Len(LowerLetters)} |->
        LET i == CHOOSE j \in 1..Len(LowerLetters) : SubSeq(LowerLetters, j, j) = c
        IN  SubSeq(UpperLetters, i, i)]

\* strings.ToUpper(s)
RECURSIVE ToUpper(_)
ToUpper(s) ==
    IF Len(s) = 0 THEN ""
    ELSE (LET c == SubSeq(s, 1, 1) IN IF c \in DOMAIN UpperOf THEN UpperOf[c] ELSE c)
         \o ToUpper(SubSeq(s, 2, Len(s)))

\* The lines outputText prints for the entries of result.Files.
RECURSIVE PrintFiles(_)
PrintFiles(files) ==
    IF files = <<>> THEN <<>>
    ELSE LET f == Head(files) IN
         (IF f.Exists
          THEN <<Line("file found", f.Name)>>
               \o (IF f.Path # "" THEN <<Line("location", f.Path)>> ELSE <<>>)
               \o PrintEach("file warning", f.Warnings)
          ELSE <<Line("file missing", f.Name)>>)
         \o PrintFiles(Tail(files))

\* The inner loop `for _, rec := range result.Recommendations` that collects
\* the recommendations of one priority.
RECURSIVE WithPriority(_, _)
WithPriority(recs, priority) ==
    IF recs = <<>> THEN <<>>
    ELSE (IF Head(recs).Priority = priority THEN <<Head(recs)>> ELSE <<>>)
         \o WithPriority(Tail(recs), priority)

\* The three lines printed for each recommendation of one group.
RECURSIVE PrintGroup(_, _)
PrintGroup(priority, recs) ==
    IF recs = <<>> THEN <<>>
    ELSE <<Line("recommendation", [label |-> ToUpper(priority),
                                   description |-> Head(recs).Description]),
           Line("category", Head(recs).Category),
           Line("action", Head(recs).Action)>>
         \o PrintGroup(priority, Tail(recs))

\* The loop over the priorities, each group printed when it is not empty.
RECURSIVE PrintGroups(_, _)
PrintGroups(priorities, recs) ==
    IF priorities = <<>> THEN <<>>
    ELSE PrintGroup(Head(priorities), WithPriority(recs, Head(priorities)))
         \o PrintGroups(Tail(priorities), recs)

priorities == <<"critical", "high", "medium", "low">>

\* Mutant: the groups are printed from low to critical.
outputTextLowFirst(res) ==
    <<Line("title", "OpenSSF Baseline Compliance Check"),
      Line("repository", res.Path),
      Line("status", IF res.IsCompliant THEN "COMPLIANT" ELSE "NOT COMPLIANT"),
      Line("header", "File Checks:")>>
    \o PrintFiles(res.Files)
    \o (IF Len(res.MissingFiles) > 0
        THEN <<Line("header", "Missing Files:")>> \o PrintEach("missing", res.MissingFiles)
        ELSE <<>>)
    \o (IF Len(res.Recommendations) > 0
        THEN <<Line("header", "Recommendations:")>>
             \o PrintGroups(<<"low", "medium", "high", "critical">>, res.Recommendations)
        ELSE <<>>)
    \o (IF ~res.IsCompliant THEN <<Line("header", "Next Steps:")>> ELSE <<>>)

\* Reporter.outputText(result): the lines written; it always returns nil.
outputText(res) ==
    <<Line("title", "OpenSSF Baseline Compliance Check"),
      Line("repository", res.Path),
      Line("status", IF res.IsCompliant THEN "COMPLIANT" ELSE "NOT COMPLIANT"),
      Line("header", "File Checks:")>>
    \o PrintFiles(res.Files)
    \o (IF Len(res.MissingFiles) > 0
        THEN <<Line("header", "Missing Files:")>> \o PrintEach("missing", res.MissingFiles)
        ELSE <<>>)
    \o (IF Len(res.Recommendations) > 0
        THEN <<Line("header", "Recommendations:")>>
             \o PrintGroups(priorities, res.Recommendations)
        ELSE <<>>)
    \o (IF ~res.IsCompliant THEN <<Line("header", "Next Steps:")>> ELSE <<>>)

\* Mutant: an unknown format falls back to the text report.
OutputCheckResultDefaultsToText(format, res, fault) ==
    IF format \in {"json", "yaml"}
    THEN (IF fault = "Encode"
          THEN [stdout |-> <<>>, err |-> "encode failed"]
          ELSE [stdout |-> <<Line(format, res)>>, err |-> "nil"])
    ELSE [stdout |-> outputText(res), err |-> "nil"]

\* Reporter.OutputCheckResult(result) of a Reporter built with the format;
\* fault says whether the JSON / YAML encoder's write to stdout fails.
OutputCheckResult(format, res, fault) ==
    IF format \in {"json", "yaml"}
    THEN (IF fault = "Encode"
          THEN [stdout |-> <<>>, err |-> "encode failed"]
          ELSE [stdout |-> <<Line(format, res)>>, err |-> "nil"])
    ELSE IF format = "text"
    THEN [stdout |-> outputText(res), err |-> "nil"]
    ELSE [stdout |-> <<>>, err |-> "unsupported format"]

\* The values of --format tried, "text" being the flag's default.
Formats == {"text", "json", "yaml", "xml"}

\* runCheck up to c.Check(): the path is the argument or --path; os.Stat
\* decides whether the check runs at all.
RunCheckBegin ==
    /\ pc = "ready"
    /\ \E format \in Formats, exists \in BOOLEAN :
       \E fault \in (IF format \in {"json", "yaml"} THEN {"none", "Encode"} ELSE {"none"}) :
        /\ args' = [command |-> "check", path |-> RepoPath, exists |-> exists,
                    format |-> format, fault |-> fault]
        /\ IF ~exists
           THEN /\ cmdErr' = "path does not exist"
                /\ pc' = "returned"
                /\ UNCHANGED <<report, err>>
           ELSE /\ report' = Check(repo)
                /\ err' = "nil"
                /\ pc' = "checked"
                /\ UNCHANGED cmdErr
    /\ entry' = "runCheck"
    /\ UNCHANGED <<data, now, calls, result, first, repo, config, force, file, concVars, stdout, exitCode>>

\* reporter.OutputCheckResult(result) and the test of its error.
RunCheckOutput ==
    /\ pc = "checked"
    /\ entry = "runCheck"
    /\ \E out \in {OutputCheckResult(args.format, report, args.fault)} :
        /\ stdout' = stdout \o out.stdout
        /\ err' = out.err
        /\ IF out.err # "nil"
           THEN cmdErr' = "failed to output results" /\ pc' = "returned"
           ELSE cmdErr' = cmdErr /\ pc' = "reported"
    /\ UNCHANGED <<data, now, calls, result, first, repoVars, concVars, args, entry, exitCode>>

\* `if !result.IsCompliant { os.Exit(1) }; return nil`
RunCheckFinish ==
    /\ pc = "reported"
    /\ IF ~report.IsCompliant
       THEN exitCode' = 1 /\ pc' = "exited" /\ cmdErr' = cmdErr
       ELSE cmdErr' = "nil" /\ pc' = "returned" /\ exitCode' = exitCode
    /\ UNCHANGED <<data, now, calls, result, err, first, repoVars, concVars, args, entry, stdout>>

\* Execute after rootCmd.Execute() has returned RunE's error.
ExecuteReturns ==
    /\ pc = "returned"
    /\ exitCode' = Execute(cmdErr)
    /\ pc' = "exited"
    /\ UNCHANGED <<data, now, calls, result, err, first, repoVars, concVars, args, entry, stdout, cmdErr>>

NextCheckCommand ==
    \/ RunCheckBegin
    \/ RunCheckOutput
    \/ RunCheckFinish
    \/ ExecuteReturns

\* The repositories the command is run on: each of the five files at its
\* first candidate path, at its third, at both or missing.
CommandPaths ==
    {c[i] : c \in {SecurityInsightsPaths, SecurityPolicyPaths, LicensePaths, CodeOfConductPaths, ContributingPaths}, i \in {1, 3}}

InitCheckCommand == RepositoryWith(CommandPaths)

SpecCheckCommand == InitCheckCommand /\ [][NextCheckCommand]_vars

----------------------------------------------------------------------------
(* Properties *)

ViaRouter == pc = "done" /\ entry = "validateSecurityInsights"

\* The call ran the V1 (V2) validator's checks: it entered the validator and
\* the validator's full parse succeeded.
RanV1Checks == pc = "done" /\ calls = <<"V1">> /\ UnmarshalV1OK(data)

RanV2Parsed == pc = "done" /\ calls = <<"V2">> /\ UnmarshalV2OK(data)

\* The number of entries of a message sequence with the given text.
CountText(msgs, text) == Cardinality({i \in 1..Len(msgs) : msgs[i].text = text})

CountMsg(msgs, text, arg) ==
    Cardinality({i \in 1..Len(msgs) : msgs[i].text = text /\ msgs[i].arg = arg})

B2N(b) == IF b THEN 1 ELSE 0

TwoDot == <<"2", ".">>

\* C1: every result validateSecurityInsights returns, on every path, has
\* IsValid true exactly when its Errors are empty.
C1_IsValidIffNoErrors ==
    ViaRouter => (result.IsValid <=> result.Errors = <<>>)

\* C1 witness: the router dispatched to V2, whose version re-check failed
\* (the early-exit path), and the result is invalid with its one error.
C1_Witness ==
    /\ ViaRouter
    /\ calls = <<"V2">>
    /\ ~result.IsValid
    /\ Len(result.Errors) = 1
    /\ result.Errors[1].text = "Invalid schema version (expected 2.x.x)"

\* C2 (as claimed): for every well-formed document the router invokes exactly
\* one validator: V2 iff the stringified header.schema-version starts with
\* "2.", V1 otherwise.
C2_WellFormedRoutedToExactlyOne ==
    (ViaRouter /\ data.syntax = "ok") =>
        calls = IF HasPrefix(SprintV(data.schemaVersion), TwoDot)
                THEN <<"V2">> ELSE <<"V1">>

\* C2 (amended): for every document the router's own parse accepts
\* (well-formed YAML whose header is a mapping or absent) the router invokes
\* exactly one validator: V2 iff the stringified header.schema-version starts
\* with "2.", V1 otherwise; when the router's parse fails neither is invoked.
C2_ParsedRoutedToExactlyOne ==
    ViaRouter =>
        /\ Len(calls) <= 1
        /\ (data.syntax = "ok" /\ data.header = "map") =>
              calls = IF HasPrefix(SprintV(data.schemaVersion), TwoDot)
                      THEN <<"V2">> ELSE <<"V1">>
        /\ ~(data.syntax = "ok" /\ data.header = "map") => calls = <<>>

\* C2 witness: a document with the float version 2.1, stringified "2.1", was
\* handed to V2 alone.
C2_Witness ==
    /\ ViaRouter
    /\ data.schemaVersion = Node("plain", <<"2", ".", "1">>)
    /\ calls = <<"V2">>

\* C3: a document whose header.schema-version is the bare number 2.0 is
\* routed to the V2 validator, like one whose version is the string "2.0.0".
C3_BareNumberRoutedToV2 ==
    (/\ ViaRouter
     /\ data.syntax = "ok" /\ data.header = "map"
     /\ data.schemaVersion \in {Node("plain", <<"2", ".", "0">>),
                                Node("plain", <<"2", ".", "0", ".", "0">>),
                                Node("quoted", <<"2", ".", "0", ".", "0">>)})
    => calls = <<"V2">>

\* C4: when the bytes are not well-formed YAML, validateSecurityInsights
\* returns IsValid=false with exactly one error and no warning, and enters
\* neither validator.
C4_MalformedYieldsOneError ==
    (ViaRouter /\ data.syntax = "bad") =>
        /\ ~result.IsValid
        /\ Len(result.Errors) = 1
        /\ result.Errors[1].text = "Invalid YAML"
        /\ result.Warnings = <<>>
        /\ calls = <<>>

\* C4 witness: the router returned on bytes that are not YAML.
C4_Witness ==
    /\ ViaRouter
    /\ data.syntax = "bad"
    /\ Len(result.Errors) = 1

\* The number of empty fields among the four V1 requires.
V1EmptyRequired(doc) ==
    B2N(DecodeString(doc.schemaVersion) = <<>>)
    + B2N(doc.projectURL = "")
    + B2N(doc.expirationDate = <<>>)
    + B2N(doc.status = "")

\* C5: V1 collects every required-field error: for a parsed V1 document the
\* number of errors is the number of empty fields among schema-version,
\* project-url, expiration-date and status; with all four empty there are
\* exactly 4 errors and IsValid is false.
C5_V1CollectsAllRequiredErrors ==
    RanV1Checks =>
        /\ Len(result.Errors) = V1EmptyRequired(data)
        /\ CountText(result.Errors, "Missing required field") = V1EmptyRequired(data)
        /\ V1EmptyRequired(data) = 4 => ~result.IsValid

\* C5 witness: a V1 document with all four required fields empty got 4 errors.
C5_Witness ==
    /\ RanV1Checks
    /\ V1EmptyRequired(data) = 4
    /\ Len(result.Errors) = 4
    /\ ~result.IsValid

\* C6: warnings never affect validity in V1: a parsed V1 document whose four
\* required fields are non-empty is valid whatever warnings it carries; with
\* last-updated and last-reviewed missing and no security contacts it is
\* valid with at least 3 warnings.
C6_V1WarningsKeepValid ==
    (RanV1Checks /\ V1EmptyRequired(data) = 0) =>
        /\ result.IsValid
        /\ result.Errors = <<>>
        /\ (/\ data.lastUpdated = ""
            /\ data.lastReviewed = ""
            /\ data.securityContacts = <<>>) => Len(result.Warnings) >= 3

\* C6 witness: a V1 document with its required fields present, an unparseable
\* expiration date, an unusual status, no recommended dates and no contacts
\* is valid with five warnings.
C6_Witness ==
    /\ RanV1Checks
    /\ V1EmptyRequired(data) = 0
    /\ data.lastUpdated = "" /\ data.lastReviewed = ""
    /\ data.securityContacts = <<>>
    /\ result.IsValid
    /\ Len(result.Warnings) = 5

InvalidFormat == "Invalid expiration-date format (should be RFC3339)"

Expired == "File has expired - please update expiration-date"

\* C7: in V1 a non-empty expiration-date never produces an error: if it is
\* not RFC3339 it adds exactly one 'invalid format' warning; if it parses and
\* is strictly before the current time, exactly one 'expired' warning; if it
\* parses and is equal to or after the current time, no warning.
C7_V1ExpirationDateWarnsOnly ==
    (RanV1Checks /\ data.expirationDate # <<>>) =>
        /\ CountMsg(result.Errors, "Missing required field", "header.expiration-date") = 0
        /\ Len(result.Errors) = V1EmptyRequired(data)
        /\ ~ParsesRFC3339(data.expirationDate) =>
              /\ CountText(result.Warnings, InvalidFormat) = 1
              /\ CountText(result.Warnings, Expired) = 0
        /\ ParsesRFC3339(data.expirationDate) =>
              /\ CountText(result.Warnings, InvalidFormat) = 0
              /\ CountText(result.Warnings, Expired)
                     = B2N(Instant(data.expirationDate) < now)

\* C7 witness: the expiration date is exactly the current time and no
\* expiration warning was added.
C7_Witness ==
    /\ RanV1Checks
    /\ data.expirationDate # <<>>
    /\ ParsesRFC3339(data.expirationDate)
    /\ Instant(data.expirationDate) = now
    /\ CountText(result.Warnings, Expired) = 0

ContactTexts ==
    {"No security-contacts specified", "Security contact missing type",
     "Security contact missing value"}

IsContactMsg(m) == m.text \in ContactTexts

\* The place of a per-contact warning in the order the claim describes:
\* by position, and at one position type before value.
ContactRank(m) ==
    2 * (CHOOSE i \in 0..Len(data.securityContacts) : ToString(i) = m.arg)
    + B2N(m.text = "Security contact missing value")

\* C8: in V1 the security-contacts list contributes only warnings: an empty
\* list adds exactly one 'no security contacts' warning; a non-empty list
\* adds, for each entry in list order, one warning if its type is empty and
\* one if its value is empty, each naming the entry's zero-based position,
\* and no 'no security contacts' warning.
C8_V1ContactWarnings ==
    RanV1Checks =>
        LET contacts == data.securityContacts
            cw == SelectSeq(result.Warnings, IsContactMsg)
        IN  /\ \A i \in 1..Len(result.Errors) : ~IsContactMsg(result.Errors[i])
            /\ Len(result.Errors) = V1EmptyRequired(data)
            /\ contacts = <<>> => cw = <<Msg("No security-contacts specified", "")>>
            /\ contacts # <<>> =>
                  /\ CountText(cw, "No security-contacts specified") = 0
                  /\ \A i \in 1..Len(contacts) :
                        /\ CountMsg(cw, "Security contact missing type", ToString(i - 1))
                               = B2N(contacts[i].type = "")
                        /\ CountMsg(cw, "Security contact missing value", ToString(i - 1))
                               = B2N(contacts[i].value = "")
                  /\ \A j \in 1..Len(cw) :
                        \E i \in 1..Len(contacts) : cw[j].arg = ToString(i - 1)
                  /\ \A j, k \in 1..Len(cw) :
                        j < k => ContactRank(cw[j]) < ContactRank(cw[k])

\* C8 witness: two contacts, the first without a value and the second
\* without a type, gave the warnings for position 0 and then position 1.
C8_Witness ==
    /\ RanV1Checks
    /\ Len(data.securityContacts) = 2
    /\ SelectSeq(result.Warnings, IsContactMsg)
         = <<Msg("Security contact missing value", "0"),
             Msg("Security contact missing type", "1")>>

\* C9: in V2 a fully parsed document whose header.schema-version does not
\* start with "2." is rejected with IsValid=false, exactly one error and no
\* warning; none of the later header, project or repository checks runs.
C9_V2VersionMismatchExitsEarly ==
    (RanV2Parsed /\ ~HasPrefix(DecodeString(data.schemaVersion), TwoDot)) =>
        /\ ~result.IsValid
        /\ Len(result.Errors) = 1
        /\ result.Errors[1].text = "Invalid schema version (expected 2.x.x)"
        /\ result.Warnings = <<>>

\* C9 witness: a parsed document with version "1.0.0" and every field the
\* later checks look at empty was rejected with the version error alone.
C9_Witness ==
    /\ RanV2Parsed
    /\ DecodeString(data.schemaVersion) = <<"1", ".", "0", ".", "0">>
    /\ data.url = "" /\ data.repositoryURL = "" /\ data.repositoryStatus = ""
    /\ data.lastUpdated = "" /\ data.administrators = <<>>
    /\ Len(result.Errors) = 1
    /\ result.Warnings = <<>>

\* The number of empty fields among the three V2 requires.
V2EmptyRequired(doc) ==
    B2N(doc.url = "") + B2N(doc.repositoryURL = "") + B2N(doc.repositoryStatus = "")

V2RequiredFields == {"header.url", "repository.url", "repository.status"}

\* C10: in V2, once the version re-check passes, the number of errors is the
\* number of empty fields among header.url, repository.url and
\* repository.status (3 when all are empty); project.name, administrators,
\* last-updated and last-reviewed never contribute an error.
C10_V2CollectsRequiredErrors ==
    (RanV2Parsed /\ HasPrefix(DecodeString(data.schemaVersion), TwoDot)) =>
        /\ Len(result.Errors) = V2EmptyRequired(data)
        /\ \A i \in 1..Len(result.Errors) :
              /\ result.Errors[i].text = "Missing required field"
              /\ result.Errors[i].arg \in V2RequiredFields
        /\ \A f \in V2RequiredFields :
              CountMsg(result.Errors, "Missing required field", f) <= 1
        /\ result.IsValid <=> V2EmptyRequired(data) = 0

\* C10 witness: a V2 document with header.url, repository.url and
\* repository.status empty, and also no name, administrators or dates, got
\* exactly 3 errors.
C10_Witness ==
    /\ RanV2Parsed
    /\ HasPrefix(DecodeString(data.schemaVersion), TwoDot)
    /\ V2EmptyRequired(data) = 3
    /\ data.name = "" /\ data.administrators = <<>>
    /\ data.lastUpdated = "" /\ data.lastReviewed = ""
    /\ Len(result.Errors) = 3

\* The status a validator judged, the text of its warning and the field its
\* error names: project-lifecycle.status in V1, repository.status in V2.
JudgedStatus == IF calls = <<"V1">> THEN data.status ELSE data.repositoryStatus

UnusualStatusText ==
    IF calls = <<"V1">> THEN "Unusual project-lifecycle.status"
    ELSE "Unusual repository.status"

StatusField ==
    IF calls = <<"V1">> THEN "project-lifecycle.status" ELSE "repository.status"

\* The call reached the status check of the validator it entered.
ReachedStatusCheck ==
    \/ RanV1Checks
    \/ RanV2Parsed /\ V2VersionOK(SecurityInsightsV2(data))

OtherRequiredPresent ==
    IF calls = <<"V1">> THEN V1EmptyRequired(data) = 0 ELSE V2EmptyRequired(data) = 0

ValidStatusSet == {validStatuses[i] : i \in 1..Len(validStatuses)}

\* C11: in both validators a non-empty status outside {active, archived,
\* concept, moved, wip} adds exactly one warning naming the value and no
\* error, so the document stays valid when its other required fields are
\* present; a status inside the set adds neither a warning nor an error.
C11_UnusualStatusWarnsOnly ==
    (ReachedStatusCheck /\ JudgedStatus # "") =>
        /\ CountMsg(result.Errors, "Missing required field", StatusField) = 0
        /\ \A i \in 1..Len(result.Errors) : result.Errors[i].arg # JudgedStatus
        /\ JudgedStatus \notin ValidStatusSet =>
              /\ CountText(result.Warnings, UnusualStatusText) = 1
              /\ CountMsg(result.Warnings, UnusualStatusText, JudgedStatus) = 1
              /\ OtherRequiredPresent => result.IsValid
        /\ JudgedStatus \in ValidStatusSet =>
              CountText(result.Warnings, UnusualStatusText) = 0

\* C11 witness: V2 judged repository.status "experimental", warned about it
\* once and returned a valid result.
C11_Witness ==
    /\ RanV2Parsed
    /\ data.repositoryStatus = "experimental"
    /\ CountMsg(result.Warnings, "Unusual repository.status", "experimental") = 1
    /\ result.IsValid

\* C12: V2 performs no expiration or staleness check: a V2 validation never
\* reads the clock and never yields an expiration warning or error, whatever
\* expiration-date the document carries, so its result is the same at every
\* current time.
C12_V2NeverChecksExpiration ==
    (pc = "done" /\ calls = <<"V2">>) =>
        /\ now = 0
        /\ result = validateSecurityInsightsV2(data)
        /\ CountText(result.Warnings, Expired) = 0
        /\ CountText(result.Warnings, InvalidFormat) = 0
        /\ CountMsg(result.Errors, "Missing required field", "header.expiration-date") = 0

\* C12 witness: the router handed a document with a long-past
\* expiration-date to V2, which ran all its checks and said nothing about it.
C12_Witness ==
    /\ ViaRouter
    /\ RanV2Parsed
    /\ V2VersionOK(SecurityInsightsV2(data))
    /\ data.expirationDate = ExpiredText
    /\ CountText(result.Warnings, Expired) = 0
    /\ now = 0

\* The messages of msgs other than the 'expired' warning.
WithoutExpired(msgs) == SelectSeq(msgs, LAMBDA m : m.text # Expired)

\* C13: validating the same bytes twice at the same current time yields
\* identical IsValid, Errors and Warnings; at different current times the two
\* results can differ only in the presence of the V1 'expired' warning.
C13_SameBytesSameResult ==
    first.called =>
        /\ first.now = now => result = first.result
        /\ result.IsValid = first.result.IsValid
        /\ result.Errors = first.result.Errors
        /\ WithoutExpired(result.Warnings) = WithoutExpired(first.result.Warnings)
        /\ calls # <<"V1">> => result = first.result

\* C13 witness: the same V1 bytes were validated before and after their
\* expiration date, and only the second result carries the 'expired' warning.
C13_Witness ==
    /\ first.called
    /\ calls = <<"V1">>
    /\ first.now < now
    /\ CountText(first.result.Warnings, Expired) = 0
    /\ CountText(result.Warnings, Expired) = 1

\* C14: round trip: for every generator Config, the SECURITY-INSIGHTS.yml
\* that generateSecurityInsights writes, fed to the validator, is routed to
\* V2 and found valid with zero errors.
C14_GeneratedFileValidates ==
    (pc = "validated") =>
        /\ calls = <<"V2">>
        /\ err = "nil"
        /\ result.IsValid
        /\ result.Errors = <<>>

\* The call returned a *ValidationResult.
ReturnedResult == result # NilResult /\ result.IsValid \in BOOLEAN

\* C15: the validation core never fails for expected conditions:
\* validateSecurityInsights returns a non-nil result and a nil error for
\* every input, with parse failures and missing fields as entries of the
\* result; ValidateFile returns an error, and then no result, only for a
\* file read failure or an unknown file type.
C15_CoreNeverFails ==
    (pc = "done") =>
        /\ entry = "validateSecurityInsights" =>
              /\ err = "nil"
              /\ ReturnedResult
              /\ ~UnmarshalHeaderOK(data) => Len(result.Errors) = 1
        /\ entry = "ValidateFile" =>
              /\ err \in {"nil", "failed to read file", "unknown file type"}
              /\ err = "failed to read file" <=> ~file.readable
              /\ err = "unknown file type" => file.readable /\ calls = <<>>
              /\ err # "nil" => result = NilResult
              /\ err = "nil" =>
                    /\ ReturnedResult
                    /\ result = validateSecurityInsights(data, now)

\* C15 witness: ValidateFile read bytes that are not YAML and returned a
\* result holding the parse failure, with a nil error.
C15_Witness ==
    /\ pc = "done"
    /\ entry = "ValidateFile"
    /\ data.syntax = "bad"
    /\ err = "nil"
    /\ ReturnedResult
    /\ ~result.IsValid

C17_ConcurrentCallsAreIndependent ==
    \A p \in Callers :
        /\ callers[p].pc = "returned" =>
              heap[callers[p].obj] =
                  validateSecurityInsights(callers[p].doc, callers[p].now)
        /\ \A q \in Callers \ {p} :
              callers[p].obj # 0 => callers[q].obj # callers[p].obj

\* C17 witness: both calls have returned, one an invalid result for bytes
\* that are not YAML and the other a valid one with an 'expired' warning.
C17_Witness ==
    /\ callers[1].pc = "returned" /\ callers[2].pc = "returned"
    /\ callers[1].doc = MalformedDoc
    /\ ~heap[callers[1].obj].IsValid
    /\ heap[callers[2].obj].IsValid
    /\ CountText(heap[callers[2].obj].Warnings, Expired) = 1

\* One of the candidate paths exists in the repository.
Found(possiblePaths) == \E i \in 1..Len(possiblePaths) : StatOK(repo, possiblePaths[i])

\* The required files that are found in none of their candidate locations.
RequiredMissing ==
    (IF Found(SecurityInsightsPaths) THEN {} ELSE {"SECURITY-INSIGHTS.yml"})
    \cup (IF Found(SecurityPolicyPaths) THEN {} ELSE {"SECURITY.md"})
    \cup (IF Found(LicensePaths) THEN {} ELSE {"LICENSE"})

\* C18: Check reports IsCompliant=true iff each of SECURITY-INSIGHTS.yml,
\* SECURITY.md and LICENSE is found in at least one candidate location;
\* MissingFiles holds exactly the missing ones of these three (3 in an empty
\* repository); a missing CODE_OF_CONDUCT.md or CONTRIBUTING.md neither adds
\* to MissingFiles nor makes the repository non-compliant.
C18_CompliantIffRequiredFound ==
    (pc = "checked") =>
        /\ report.IsCompliant <=>
              /\ Found(SecurityInsightsPaths)
              /\ Found(SecurityPolicyPaths)
              /\ Found(LicensePaths)
        /\ Range(report.MissingFiles) = RequiredMissing
        /\ Len(report.MissingFiles) = Cardinality(RequiredMissing)
        /\ repo = EmptyRepo => Len(report.MissingFiles) = 3

\* C18 witness: a repository with the three required files, each in its
\* last candidate location, and neither CODE_OF_CONDUCT.md nor
\* CONTRIBUTING.md was found compliant.
C18_Witness ==
    /\ pc = "checked"
    /\ report.IsCompliant
    /\ report.MissingFiles = <<>>
    /\ ~Found(CodeOfConductPaths) /\ ~Found(ContributingPaths)
    /\ ~StatOK(repo, "SECURITY-INSIGHTS.yml") /\ ~StatOK(repo, "SECURITY.md")
    /\ ~StatOK(repo, "LICENSE")

\* C19: checkSecurityInsights reports Exists=true iff at least one of the
\* four candidate paths exists; the reported Path is the first existing one
\* in the order root .yml, .github .yml, root .yaml, .github .yaml, and is
\* empty when none exists.
C19_FirstExistingCandidate ==
    (pc = "checked") =>
        LET f == report.Files[1]
        IN  /\ f.Name = "SECURITY-INSIGHTS.yml"
            /\ f.Exists <=> Found(SecurityInsightsPaths)
            /\ ~f.Exists => f.Path = ""
            /\ \A i \in 1..Len(SecurityInsightsPaths) :
                  (/\ StatOK(repo, SecurityInsightsPaths[i])
                   /\ \A k \in 1..(i - 1) : ~StatOK(repo, SecurityInsightsPaths[k]))
                  => f.Path = Join(RepoPath, SecurityInsightsPaths[i])

\* C19 witness: with .github/SECURITY-INSIGHTS.yml and both .yaml files
\* present and no root .yml, the reported path is the .github .yml.
C19_Witness ==
    /\ pc = "checked"
    /\ ~StatOK(repo, "SECURITY-INSIGHTS.yml")
    /\ StatOK(repo, ".github/SECURITY-INSIGHTS.yml")
    /\ StatOK(repo, "SECURITY-INSIGHTS.yaml")
    /\ StatOK(repo, ".github/SECURITY-INSIGHTS.yaml")
    /\ report.Files[1].Path = "/home/dev/repo/.github/SECURITY-INSIGHTS.yml"

\* A step that is a whole call of GenerateWithConfig (directly or through
\* GenerateDefaults).
GenerateStep == pc = "ready" /\ pc' = "generated"

GeneratedPaths == {"SECURITY-INSIGHTS.yml", "SECURITY.md"}

\* What the call writes to path p when it writes it.
GeneratedContent(p) ==
    IF p = "SECURITY-INSIGHTS.yml"
    THEN GeneratedFile(SecurityInsightsContent(config', now'))
    ELSE GeneratedFile(SecurityMdContent(config'))

RECURSIVE Printed(_, _)
Printed(kind, lines) ==
    IF lines = <<>> THEN <<>>
    ELSE (IF Head(lines).kind = kind THEN <<Head(lines).text>> ELSE <<>>)
         \o Printed(kind, Tail(lines))

\* The validate command ran ValidateFile and got a result.
ValidateCommandGotResult ==
    pc = "exited" /\ entry = "runValidate" /\ cmdErr = "nil"

\* C21 (as stated): for every ValidationResult the validate command prints
\* the result's errors and its warnings, and the process exits non-zero
\* exactly when the result is invalid or validation itself failed.
C21_PrintsAllExitsOnInvalid ==
    (pc = "exited" /\ entry = "runValidate") =>
        /\ (exitCode # 0) <=> (cmdErr # "nil" \/ ~result.IsValid)
        /\ cmdErr = "nil" =>
            /\ Printed("error", stdout) = result.Errors
            /\ Printed("warning", stdout) = result.Warnings

\* The check command has ended.
CheckCommandExited == entry = "runCheck" /\ pc = "exited"

\* OutputCheckResult ran and returned nil.
OutputSucceeded == args.exists /\ err = "nil" /\ Len(stdout) > 0

\* The check result is on standard output in the format asked for.
ResultIsOutput ==
    \E i \in 1..Len(stdout) :
        IF args.format = "text"
        THEN /\ stdout[i].kind = "status"
             /\ stdout[i].text = (IF report.IsCompliant THEN "COMPLIANT" ELSE "NOT COMPLIANT")
        ELSE /\ stdout[i].kind = args.format
             /\ stdout[i].text = report

\* C22: the check command exits with 0 exactly when the repository is
\* compliant and the result was output successfully, and with 1 when the
\* repository is not compliant or an error occurred (nonexistent path,
\* unsupported format); the process never ends before the command has
\* exited, and at the non-compliant exit the result has already been
\* output.
C22_CheckExitCodes ==
    /\ pc # "exited" => exitCode = "running"
    /\ CheckCommandExited =>
        /\ exitCode \in {0, 1}
        /\ (exitCode = 0) <=> (OutputSucceeded /\ report.IsCompliant)
        /\ (~args.exists \/ args.format \notin {"text", "json", "yaml"}) => exitCode = 1
        /\ (args.exists /\ ~report.IsCompliant) => exitCode = 1
        /\ (args.exists /\ ~report.IsCompliant /\ cmdErr = "none") => ResultIsOutput

\* A non-compliant repository was reported and the command exited with 1.
C22_Witness ==
    /\ CheckCommandExited
    /\ args.exists
    /\ ~report.IsCompliant
    /\ cmdErr = "none"
    /\ ResultIsOutput
    /\ exitCode = 1

PriorityRank(label) ==
    CASE label = "CRITICAL" -> 1
      [] label = "HIGH" -> 2
      [] label = "MEDIUM" -> 3
      [] label = "LOW" -> 4
      [] OTHER -> 5

\* The text report of the check result is on standard output.
TextReportPrinted ==
    entry = "runCheck" /\ pc \in {"reported", "exited"} /\ args.exists /\ args.format = "text"

\* The places at which the recommendation is printed.
PrintedAt(rec, printed) ==
    {j \in 1..Len(printed) : /\ printed[j].description = rec.Description
                             /\ printed[j].label = ToUpper(rec.Priority)}

\* C23: the text report prints the recommendations grouped by priority in
\* the order critical, high, medium, low, keeps the checker's relative
\* order inside each group, and prints every recommendation of Check
\* exactly once.
C23_GroupedByPriority ==
    TextReportPrinted =>
        LET printed == Printed("recommendation", stdout)
            recs == report.Recommendations
        IN  /\ Len(printed) = Len(recs)
            /\ \A i \in 1..Len(recs) : Cardinality(PrintedAt(recs[i], printed)) = 1
            /\ \A j, k \in 1..Len(printed) :
                  j < k => PriorityRank(printed[j].label) <= PriorityRank(printed[k].label)
            /\ \A i, k \in 1..Len(recs) :
                  (i < k /\ recs[i].Priority = recs[k].Priority) =>
                      \A a \in PrintedAt(recs[i], printed), b \in PrintedAt(recs[k], printed) : a < b

\* A report in which a medium recommendation of the checker comes before a
\* high one, and two medium ones are printed after the high ones.
C23_Witness ==
    /\ TextReportPrinted
    /\ Len(report.Recommendations) = 4
    /\ report.Recommendations[1].Priority = "medium"
    /\ report.Recommendations[2].Priority = "high"
    /\ Printed("recommendation", stdout)[1].label = "HIGH"
    /\ Printed("recommendation", stdout)[4].label = "LOW"

\* The place of a V1 warning in the order the checks are said to run in:
\* required-field checks, recommended-field checks, list checks.
ClaimedWarningRank(m) ==
    CASE m.text \in {InvalidFormat, Expired, "Unusual project-lifecycle.status"} -> 1
      [] m.text = "Missing recommended field" -> 2
      [] OTHER -> 3

\* The place of a V1 warning in the order the checks run in.
WarningRank(m) ==
    CASE m.text \in {InvalidFormat, Expired} -> 1
      [] m = Msg("Missing recommended field", "header.last-updated") -> 2
      [] m = Msg("Missing recommended field", "header.last-reviewed") -> 3
      [] m.text = "Unusual project-lifecycle.status" -> 4
      [] OTHER -> 5

\* The place of a V1 error in the order the checks run in.
ErrorRank(m) ==
    CASE m.arg = "header.schema-version" -> 1
      [] m.arg = "header.project-url" -> 2
      [] m.arg = "header.expiration-date" -> 3
      [] OTHER -> 4

Missing(field) == Msg("Missing required field", field)

Recommended(field) == Msg("Missing recommended field", field)

Occurrences(msgs, m) == Cardinality({i \in 1..Len(msgs) : msgs[i] = m})

\* C25: after a successful full parse no validator exits early except V2
\* on a version mismatch: every check of V1, and every check of V2 once the
\* version passed, leaves its message exactly when its own field calls for
\* it, whatever errors the earlier checks have recorded; the V2 version
\* mismatch alone ends the validation with its single error.
C25_ErrorsNeverSuppressLaterChecks ==
    /\ RanV1Checks =>
        /\ Occurrences(result.Errors, Missing("header.project-url")) = B2N(data.projectURL = "")
        /\ Occurrences(result.Errors, Missing("header.expiration-date")) = B2N(data.expirationDate = <<>>)
        /\ Occurrences(result.Warnings, Recommended("header.last-updated")) = B2N(data.lastUpdated = "")
        /\ Occurrences(result.Warnings, Recommended("header.last-reviewed")) = B2N(data.lastReviewed = "")
        /\ Occurrences(result.Errors, Missing("project-lifecycle.status")) = B2N(data.status = "")
        /\ Occurrences(result.Warnings, Msg("No security-contacts specified", "")) = B2N(data.securityContacts = <<>>)
    /\ (RanV2Parsed /\ HasPrefix(DecodeString(data.schemaVersion), TwoDot)) =>
        /\ Occurrences(result.Warnings, Recommended("header.last-updated")) = B2N(data.lastUpdated = "")
        /\ Occurrences(result.Warnings, Recommended("header.last-reviewed")) = B2N(data.lastReviewed = "")
        /\ Occurrences(result.Errors, Missing("header.url")) = B2N(data.url = "")
        /\ Occurrences(result.Warnings, Recommended("project.name")) = B2N(data.name = "")
        /\ Occurrences(result.Warnings, Msg("No project administrators specified", "")) = B2N(data.administrators = <<>>)
        /\ Occurrences(result.Errors, Missing("repository.url")) = B2N(data.repositoryURL = "")
        /\ Occurrences(result.Errors, Missing("repository.status")) = B2N(data.repositoryStatus = "")
    /\ (RanV2Parsed /\ ~HasPrefix(DecodeString(data.schemaVersion), TwoDot)) =>
        /\ result.Errors = <<Msg("Invalid schema version (expected 2.x.x)", "")>>
        /\ result.Warnings = <<>>

\* A V1 document with its four required fields empty, no dates and no
\* contacts got four errors and still the three warnings.
C25_Witness ==
    /\ RanV1Checks
    /\ V1EmptyRequired(data) = 4
    /\ data.lastUpdated = "" /\ data.lastReviewed = ""
    /\ data.securityContacts = <<>>
    /\ Len(result.Errors) = 4
    /\ result.Warnings = <<Recommended("header.last-updated"),
                           Recommended("header.last-reviewed"),
                           Msg("No security-contacts specified", "")>>

\* The checker has looked at the repository.
Checked == pc = "checked" /\ entry = "Check"

C27_RouterAndV2Agree ==
    (ViaRouter /\ RanV2Parsed) =>
        /\ HasPrefix(DecodeString(data.schemaVersion), TwoDot)
        /\ CountText(result.Errors, "Invalid schema version (expected 2.x.x)") = 0

\* header.schema-version is not in the document, or is the empty string.
VersionAbsentOrEmpty(doc) ==
    doc.schemaVersion.style \in {"absent", "quoted"} /\ doc.schemaVersion.text = <<>>

\* C28 (as stated): every well-formed document whose header.schema-version
\* is absent or empty is routed to V1 and reported invalid with the
\* 'Missing required field: header.schema-version' error as the first
\* entry of Errors, whatever else the document contains.
C28_NoVersionFirstError ==
    (ViaRouter /\ data.syntax = "ok" /\ VersionAbsentOrEmpty(data)) =>
        /\ calls = <<"V1">>
        /\ ~result.IsValid
        /\ result.Errors[1] = Missing("header.schema-version")

\* C28 (amended): every document the router's header parse accepts whose
\* header.schema-version is absent or empty is routed to V1 and reported
\* invalid; when V1's full parse accepts it too, the missing schema-version
\* error is the first entry of Errors whatever else the document contains,
\* and when V1's full parse rejects it the 'Invalid YAML' error is the only
\* entry.
C28_NoVersionFirstErrorWhenParsed ==
    (ViaRouter /\ UnmarshalHeaderOK(data) /\ VersionAbsentOrEmpty(data)) =>
        /\ calls = <<"V1">>
        /\ ~result.IsValid
        /\ UnmarshalV1OK(data) => result.Errors[1] = Missing("header.schema-version")
        /\ ~UnmarshalV1OK(data) => /\ Len(result.Errors) = 1
                                   /\ result.Errors[1].text = "Invalid YAML"

\* A document of the v2 shape without schema-version went to V1 and has the
\* missing schema-version error first, before the other missing fields.
C28_Witness ==
    /\ ViaRouter
    /\ data.schemaVersion = AbsentNode
    /\ data.url # "" /\ data.repositoryURL # "" /\ data.repositoryStatus = "active"
    /\ calls = <<"V1">>
    /\ Len(result.Errors) = 4
    /\ result.Errors[1] = Missing("header.schema-version")

\* The five files in the order Check looks for them, and the priority of
\* the recommendation for each.
CheckedNames == <<"SECURITY-INSIGHTS.yml", "SECURITY.md", "LICENSE", "CODE_OF_CONDUCT.md", "CONTRIBUTING.md">>

CheckedPriorities == <<"high", "medium", "high", "medium", "low">>

\* a is b with some entries left out.
RECURSIVE IsSubsequence(_, _)
IsSubsequence(a, b) ==
    IF a = <<>> THEN TRUE
    ELSE IF b = <<>> THEN FALSE
    ELSE IF Head(a) = Head(b) THEN IsSubsequence(Tail(a), Tail(b))
    ELSE IsSubsequence(a, Tail(b))

\* The number of files among the first i that do not exist.
MissingUpTo(i) == Cardinality({j \in 1..i : ~report.Files[j].Exists})

\* C29: for every repository state Check returns exactly five FileChecks in
\* the order SECURITY-INSIGHTS.yml, SECURITY.md, LICENSE,
\* CODE_OF_CONDUCT.md, CONTRIBUTING.md, exactly one recommendation per file
\* that does not exist, in the same order and with the priorities high,
\* medium, high, medium, low respectively, and MissingFiles is a
\* subsequence of the first three names.
C29_FiveChecksOneRecommendationEach ==
    Checked =>
        /\ Len(report.Files) = 5
        /\ \A i \in 1..5 : report.Files[i].Name = CheckedNames[i]
        /\ Len(report.Recommendations) = MissingUpTo(5)
        /\ \A i \in 1..5 : ~report.Files[i].Exists =>
              LET rec == report.Recommendations[MissingUpTo(i)]
              IN  /\ rec.Description = CheckedNames[i] \o " file is missing"
                  /\ rec.Priority = CheckedPriorities[i]
        /\ IsSubsequence(report.MissingFiles, SubSeq(CheckedNames, 1, 3))

\* A repository with SECURITY-INSIGHTS.yml and LICENSE only: three
\* recommendations (medium, medium, low) and one missing file.
C29_Witness ==
    /\ Checked
    /\ report.Files[1].Exists /\ ~report.Files[2].Exists /\ report.Files[3].Exists
    /\ ~report.Files[4].Exists /\ ~report.Files[5].Exists
    /\ Len(report.Recommendations) = 3
    /\ report.Recommendations[3].Priority = "low"
    /\ report.MissingFiles = <<"SECURITY.md">>

\* The generator wrote the file at the path in this run.
Generated(path) ==
    /\ pc = "generated"
    /\ repo[path].kind = "file"
    /\ repo[path].by = "generator"

\* The configurations that differ from c in BugFixesOnly and
\* DistributionPoints only.
SameButUnused(c) ==
    {[c EXCEPT !.BugFixesOnly = bfo, !.DistributionPoints = points] :
        bfo \in BOOLEAN, points \in SeqsUpTo(DistributionPointTexts, MaxDistributionPoints)}

\* The configurations that differ from c in one field other than
\* SecurityEmail.
SameEmail(c) ==
    {[c EXCEPT !.ProjectURL = u] : u \in ProjectURLs}
    \cup {[c EXCEPT !.ProjectName = n] : n \in ProjectNames}
    \cup {[c EXCEPT !.ProjectStage = st] : st \in Statuses}
    \cup {[c EXCEPT !.AcceptsVulnReports = ~c.AcceptsVulnReports],
          [c EXCEPT !.AcceptsPullRequests = ~c.AcceptsPullRequests],
          [c EXCEPT !.AcceptsAutomatedPR = ~c.AcceptsAutomatedPR]}
    \cup {[c EXCEPT !.Maintainers = m] : m \in SeqsUpTo(MaintainerTexts, MaxMaintainers)}
    \cup SameButUnused(c)

\* C30: the generated SECURITY-INSIGHTS.yml does not depend on
\* Config.BugFixesOnly or Config.DistributionPoints: a configuration that
\* differs only in these fields gives, for the same date, the content that
\* was written; and SECURITY.md depends only on Config.SecurityEmail: it
\* carries that address and a configuration that differs in any other
\* field gives the content that was written.
C30_ContentIgnoresUnusedFields ==
    /\ Generated("SECURITY-INSIGHTS.yml") =>
          \A c2 \in SameButUnused(config) :
              SecurityInsightsContent(c2, now) = repo["SECURITY-INSIGHTS.yml"].content
    /\ Generated("SECURITY.md") =>
          /\ repo["SECURITY.md"].content.reportTo = config.SecurityEmail
          /\ \A c2 \in SameEmail(config) :
                SecurityMdContent(c2) = repo["SECURITY.md"].content

\* Both files were generated from a configuration with BugFixesOnly set and
\* a distribution point.
C30_Witness ==
    /\ Generated("SECURITY-INSIGHTS.yml")
    /\ Generated("SECURITY.md")
    /\ config.BugFixesOnly
    /\ config.DistributionPoints # <<>>

====
